---- MODULE Spec2Model ----
(***************************************************************************)
(* Model of the burnit temporal media compositor and export pipeline.      *)
(*                                                                         *)
(* Numbers.  Times and durations are milliseconds.  JavaScript numbers are *)
(* modelled by integers; the one non-number a sampler can produce, NaN     *)
(* (x % 0), is the value NaN below, and comparisons with it are false as   *)
(* in JavaScript.  Opacity is held in hundredths (1.0 is 100) and scale    *)
(* factors in hundredths (0.1 is 10).                                      *)
(*                                                                         *)
(* The module holds several specifications over the same variables, one    *)
(* per part of the program; each leaves the other parts' variables alone.  *)
(***************************************************************************)
EXTENDS Integers, Sequences, FiniteSets, TLC

VARIABLES
    gifAsset,   \* the frame-sequence asset being sampled: [frames, totalDurationMs]
    sample,     \* the last sampling call and what it selected
    gifDec,     \* one run of decodeGif
    webmDec,    \* one run of extractWebMFrames
    project,    \* currentProject of the store: [assets, layers, settings]
    surface,    \* the surface last composited: [pass, requested, timeMs, fill, draws, aborted]
    videoTime,  \* currentTime of the video asset's element, in ms
    timeline,   \* timeline of the store: [currentTime, isPlaying, speed, loopStartTime]
    call,       \* the last call of the timeline or of a loop-duration resolver
    gifOptions, \* the options given to exportGif: [fps, loopDurationMs]
    gifRuns,    \* two calls of exportGif with these options
    clock,      \* performance.now(), the wall clock
    selectedLayerIds, \* canvas.selectedLayerIds of the store
    copiedLayers,     \* the layers copied by Ctrl+C
    broken,     \* the assets whose source drawImage refuses (a closed bitmap)
    videoOpen,  \* one run of createVideoAsset
    capture,    \* one capture export: the recorder, its timer and the render loop
    seekWait,   \* one seek-and-wait on a video element
    shared,     \* a video element sampled by the preview and by an export
    undoStack,  \* undoStack of the store: the saved projects, oldest first
    timeText,   \* one time formatted by formatTime and read back by parseTime
    ctx         \* a 2D context on which one layer is drawn

sampleVars == <<gifAsset, sample>>
decodeVars == <<gifDec, webmDec>>
compositeVars == <<project, surface, videoTime>>
timelineVars == <<timeline, call>>
exportVars == <<gifOptions, gifRuns, clock>>
storeVars == <<selectedLayerIds, copiedLayers>>
sourceVars == <<broken>>
openVars == <<videoOpen>>
runVars == <<capture, seekWait, shared>>
restVars == <<undoStack, timeText, ctx>>

\* everything outside one part of the program
notPreview == <<sampleVars, decodeVars, exportVars, storeVars, sourceVars, openVars,
    runVars, restVars>>
notSample == <<decodeVars, compositeVars, timelineVars, exportVars, storeVars, sourceVars, openVars,
    runVars, restVars>>
notDecode == <<sampleVars, compositeVars, timelineVars, exportVars, storeVars, sourceVars, openVars,
    runVars, restVars>>
notOpen == <<sampleVars, compositeVars, timelineVars, exportVars, storeVars, sourceVars, decodeVars,
    runVars, restVars>>
notComposite == <<notPreview, timelineVars>>
notRuns == <<sampleVars, decodeVars, compositeVars, timelineVars, exportVars, storeVars, sourceVars,
    openVars, restVars>>
notExportGif == <<sampleVars, decodeVars, timelineVars, storeVars, sourceVars, openVars,
    runVars, restVars>>
notStore == <<sampleVars, decodeVars, timelineVars, exportVars, surface, videoTime, sourceVars, openVars,
    runVars, restVars>>

vars == <<sampleVars, decodeVars, compositeVars, timelineVars, exportVars, storeVars, sourceVars,
         openVars, runVars, restVars>>

(***************************************************************************)
(* Bounds of the model                                                     *)
(***************************************************************************)
MaxFrames == 3      \* longest frame list
MaxDurMs == 3       \* longest single frame duration
MaxTimeMs == 10     \* latest sampling time
MaxGifFrames == 3   \* most frames in a decoded GIF file
MaxWebMFrames == 3  \* most frames extracted from a WebM file

(***************************************************************************)
(* JavaScript arithmetic                                                   *)
(***************************************************************************)
NaN == -1

\* Infinity, the duration a video element reports for an unbounded stream
Infinity == -3

\* isFinite(x)
isFinite(x) == x # NaN /\ x # Infinity

\* a % b for a >= 0, b >= 0: NaN when b is 0 or a is NaN
JsMod(a, b) == IF a = NaN \/ b = NaN \/ b = 0 THEN NaN ELSE a % b

\* a < b: false when either side is NaN
JsLess(a, b) == a # NaN /\ b # NaN /\ a < b

RECURSIVE SumSeq(_)
SumSeq(s) == IF s = <<>> THEN 0 ELSE Head(s) + SumSeq(Tail(s))

Max(a, b) == IF a >= b THEN a ELSE b
Min(a, b) == IF a <= b THEN a ELSE b

(***************************************************************************)
(* Frame selection (gif/decode.ts, canvas/draw.ts).  A frame list is the   *)
(* sequence of its frames' durationMs; a frame is named by its JavaScript  *)
(* index 0..length-1.                                                      *)
(***************************************************************************)

\* mutant: the comparison admits equality (loopTime <= accumulatedTime)
RECURSIVE ScanFrames_Inclusive(_, _, _, _)
ScanFrames_Inclusive(frames, loopTime, i, accumulatedTime) ==
    IF i > Len(frames) THEN 0
    ELSE LET acc == accumulatedTime + frames[i]
         IN  IF loopTime # NaN /\ loopTime <= acc THEN i
             ELSE ScanFrames_Inclusive(frames, loopTime, i + 1, acc)

\* The scan shared by the three samplers: accumulate durations in stored
\* order from position i (1-based) and return the first position whose
\* running sum exceeds loopTime, or 0 when the loop falls through.
RECURSIVE ScanFrames(_, _, _, _)
ScanFrames(frames, loopTime, i, accumulatedTime) ==
    IF i > Len(frames) THEN 0
    ELSE LET acc == accumulatedTime + frames[i]
         IN  IF JsLess(loopTime, acc) THEN i
             ELSE ScanFrames(frames, loopTime, i + 1, acc)

\* mutant: the loop time is not wrapped
getFrameIndexAtTime_NoWrap(asset, timeMs) ==
    IF Len(asset.frames) = 0 THEN 0
    ELSE LET pos == ScanFrames(asset.frames, timeMs, 1, 0)
         IN  IF pos = 0 THEN Len(asset.frames) - 1 ELSE pos - 1

\* getFrameIndexAtTime: index 0 for an empty list, last index on fall-through
getFrameIndexAtTime(asset, timeMs) ==
    IF Len(asset.frames) = 0 THEN 0
    ELSE LET loopTime == JsMod(timeMs, asset.totalDurationMs)
             pos == ScanFrames(asset.frames, loopTime, 1, 0)
         IN  IF pos = 0 THEN Len(asset.frames) - 1 ELSE pos - 1

\* getFrameAtTime: throws on an empty list, else the selected frame
getFrameAtTime(asset, timeMs) ==
    IF Len(asset.frames) = 0 THEN [ok |-> FALSE, idx |-> 0]
    ELSE LET loopTime == JsMod(timeMs, asset.totalDurationMs)
             pos == ScanFrames(asset.frames, loopTime, 1, 0)
         IN  [ok |-> TRUE,
              idx |-> IF pos = 0 THEN Len(asset.frames) - 1 ELSE pos - 1]

\* drawGifAsset: draws nothing for an empty list; currentFrame starts as
\* frames[0] and is replaced by the first frame the scan selects
drawGifAsset(asset, currentTimeMs) ==
    IF Len(asset.frames) = 0 THEN [ok |-> FALSE, idx |-> 0]
    ELSE LET loopTime == JsMod(currentTimeMs, asset.totalDurationMs)
             pos == ScanFrames(asset.frames, loopTime, 1, 0)
         IN  [ok |-> TRUE, idx |-> IF pos = 0 THEN 0 ELSE pos - 1]

\* getFrameAtTime of the time utilities: the frame count divides the loop
\* evenly; 0 when the total or the count is 0
getFrameAtTimeByCount(timeMs, totalDurationMs, frameCount) ==
    IF totalDurationMs = 0 \/ frameCount = 0 THEN 0
    ELSE (((timeMs % totalDurationMs) * frameCount) \div totalDurationMs) % frameCount

FrameLists == UNION {[1..n -> 0..MaxDurMs] : n \in 0..MaxFrames}

NoSample == [op |-> "none", timeMs |-> 0, ok |-> FALSE, idx |-> 0]

(***************************************************************************)
(* decodeGif (gif/decode.ts).  The composition canvas is one row of        *)
(* GifWidth pixels; a pixel holds 0 (transparent) or the number of the     *)
(* source frame whose patch wrote it.  A source frame is                   *)
(* [delay, disposalType, left, width]; an emitted frame is                 *)
(* [bitmap, durationMs].  drawnOn records, for each emitted frame, the     *)
(* canvas its patch was put on.                                            *)
(***************************************************************************)
MinFrameDurationMs == 10

\* the pixels of the logical screen: one row, two pixels wide
GifPixels == {1, 2}

ClearCanvas == [p \in GifPixels |-> 0]

\* ctx.putImageData(imageData, frame.dims.left, frame.dims.top)
PutPatch(canvas, frame, n) ==
    [p \in GifPixels |->
        IF p > frame.left /\ p <= frame.left + frame.width THEN n ELSE canvas[p]]

\* "Handle disposal of previous frame": the canvas frame i (1-based) is drawn on
DisposePrevious(d) ==
    IF d.i = 1 THEN d.canvas
    ELSE LET prevFrame == d.src[d.i - 1]
         IN  IF prevFrame.disposalType = 2 THEN ClearCanvas
             ELSE IF prevFrame.disposalType = 3 /\ d.previousImageData.has
                  THEN d.previousImageData.data
                  ELSE d.canvas

\* mutant: totalDurationMs accumulates the declared delay, not the clamped one
DecodeGifFrame_RawDelayTotal(d) ==
    LET frame == d.src[d.i]
        base == DisposePrevious(d)
        drawn == PutPatch(base, frame, d.i)
        durationMs == Max(frame.delay, MinFrameDurationMs)
    IN  [d EXCEPT !.canvas = drawn,
                  !.previousImageData =
                      IF frame.disposalType = 3
                      THEN [has |-> TRUE, data |-> base] ELSE @,
                  !.frames = Append(@, [bitmap |-> drawn, durationMs |-> durationMs]),
                  !.drawnOn = Append(@, base),
                  !.totalDurationMs = @ + frame.delay,
                  !.i = @ + 1]

\* mutant: the canvas is saved after the patch is drawn
DecodeGifFrame_SavedAfterPatch(d) ==
    LET frame == d.src[d.i]
        base == DisposePrevious(d)
        drawn == PutPatch(base, frame, d.i)
        durationMs == Max(frame.delay, MinFrameDurationMs)
    IN  [d EXCEPT !.canvas = drawn,
                  !.previousImageData =
                      IF frame.disposalType = 3
                      THEN [has |-> TRUE, data |-> drawn] ELSE @,
                  !.frames = Append(@, [bitmap |-> drawn, durationMs |-> durationMs]),
                  !.drawnOn = Append(@, base),
                  !.totalDurationMs = @ + durationMs,
                  !.i = @ + 1]

\* one iteration of the frame loop
DecodeGifFrame(d) ==
    LET frame == d.src[d.i]
        base == DisposePrevious(d)
        drawn == PutPatch(base, frame, d.i)
        durationMs == Max(frame.delay, MinFrameDurationMs)
    IN  [d EXCEPT !.canvas = drawn,
                  !.previousImageData =
                      IF frame.disposalType = 3
                      THEN [has |-> TRUE, data |-> base] ELSE @,
                  !.frames = Append(@, [bitmap |-> drawn, durationMs |-> durationMs]),
                  !.drawnOn = Append(@, base),
                  !.totalDurationMs = @ + durationMs,
                  !.i = @ + 1]

\* declared delays (below and above the minimum) and disposal methods
\* (1 keep, 2 restore to background, 3 restore to previous)
GifDelays == {5, 20}
GifDisposalTypes == {1, 2, 3}

GifSourceFrames ==
    {f \in [delay : GifDelays, disposalType : GifDisposalTypes,
            left : {p - 1 : p \in GifPixels}, width : GifPixels] :
        f.left + f.width <= Cardinality(GifPixels)}

IdleGifDec ==
    [pc |-> "idle", src |-> <<>>, i |-> 1, canvas |-> ClearCanvas,
     previousImageData |-> [has |-> FALSE, data |-> ClearCanvas],
     frames |-> <<>>, totalDurationMs |-> 0, drawnOn |-> <<>>]

\* lines 19-38: parse, throw on an empty file, set up the canvas
DecodeGifStart ==
    /\ gifDec.pc = "parse"
    /\ gifDec' = [gifDec EXCEPT !.pc = IF Len(gifDec.src) = 0 THEN "threw" ELSE "loop"]
    /\ UNCHANGED <<notDecode, webmDec>>

DecodeGifLoop ==
    /\ gifDec.pc = "loop"
    /\ gifDec.i <= Len(gifDec.src)
    /\ gifDec' = DecodeGifFrame(gifDec)
    /\ UNCHANGED <<notDecode, webmDec>>

\* lines 80-90: the asset returned is [frames, totalDurationMs] of gifDec
DecodeGifReturn ==
    /\ gifDec.pc = "loop"
    /\ gifDec.i > Len(gifDec.src)
    /\ gifDec' = [gifDec EXCEPT !.pc = "returned"]
    /\ UNCHANGED <<notDecode, webmDec>>

(***************************************************************************)
(* extractWebMFrames (video/webm frame extraction).  video.duration is in  *)
(* whole seconds, or NaN, or Infinity.  An option that is absent           *)
(* is 0 (the code tests options.x || default).  durationMs of a            *)
(* frame, (1 / frameRate) * 1000, is kept to its integer part, which is    *)
(* exact for the frame rates that divide 1000.                             *)
(***************************************************************************)
DefaultFrameRate == 30
FrameCap == 300

CeilDiv(a, b) == (a + b - 1) \div b

WebMFrameRate(options) ==
    IF options.frameRate # 0 THEN options.frameRate ELSE DefaultFrameRate

\* Math.ceil(duration * frameRate) is the product itself: both are whole
WebMMaxFrames(duration, options) ==
    IF options.maxFrames # 0 THEN options.maxFrames
    ELSE Min(duration * WebMFrameRate(options), FrameCap)

WebMFrameDurationMs(options) == 1000 \div WebMFrameRate(options)

IdleWebMDec ==
    [pc |-> "idle", duration |-> 0, options |-> [frameRate |-> 0, maxFrames |-> 0],
     i |-> 0, frames |-> <<>>, totalDurationMs |-> 0]

\* mutant: only a duration that compares <= 0 is refused
UsableDuration_NotCompared(duration) == isFinite(duration) => duration > 0

\* !(!isFinite(duration) || duration <= 0)
UsableDuration(duration) == isFinite(duration) /\ duration > 0

\* lines 35-41: reject an unusable duration, else enter the loop
WebMLoadedMetadata ==
    /\ webmDec.pc = "loading"
    /\ webmDec' = [webmDec EXCEPT !.pc =
          IF ~UsableDuration(webmDec.duration)
          THEN "rejected" ELSE "loop"]
    /\ UNCHANGED <<notDecode, gifDec>>

\* createVideoAsset: before the call, and its outcomes
IdleVideoOpen ==
    [pc |-> "idle", supported |-> TRUE, duration |-> 0, error |-> "", durationMs |-> 0]

\* the browser cannot play WebM: the call throws before it loads anything
CreateVideoAssetUnsupported ==
    /\ videoOpen.pc = "loading"
    /\ ~videoOpen.supported
    /\ videoOpen' = [videoOpen EXCEPT !.pc = "rejected",
             !.error = "WebM video format is not supported in this browser"]
    /\ UNCHANGED notOpen

\* onLoadedMetadata: reject an unusable duration, else resolve the asset
CreateVideoAssetLoadedMetadata ==
    /\ videoOpen.pc = "loading"
    /\ videoOpen.supported
    /\ videoOpen' = IF ~UsableDuration(videoOpen.duration)
                    THEN [videoOpen EXCEPT !.pc = "rejected",
                                           !.error = "Invalid video duration"]
                    ELSE [videoOpen EXCEPT !.pc = "resolved",
                                           !.durationMs = videoOpen.duration * 1000]
    /\ UNCHANGED notOpen

\* onError: the element could not load the file
CreateVideoAssetError ==
    /\ videoOpen.pc = "loading"
    /\ videoOpen.supported
    /\ videoOpen' = [videoOpen EXCEPT !.pc = "rejected",
                                      !.error = "Failed to load video"]
    /\ UNCHANGED notOpen

\* lines 28-31: the video element reports an error before its metadata
WebMLoadError ==
    /\ webmDec.pc = "loading"
    /\ webmDec' = [webmDec EXCEPT !.pc = "rejected"]
    /\ UNCHANGED <<notDecode, gifDec>>

\* mutant: the total is taken over every loop iteration, skipped or not
WebMTotal_AllIterations(d) ==
    WebMMaxFrames(d.duration, d.options) * WebMFrameDurationMs(d.options)

\* line 85: frames.reduce((sum, frame) => sum + frame.durationMs, 0)
WebMTotal(d) ==
    SumSeq([k \in 1..Len(d.frames) |-> d.frames[k].durationMs])

\* lines 55-77: one iteration; seeked is whether seek, draw and
\* createImageBitmap all succeeded (a failure skips the frame)
WebMExtractFrame ==
    /\ webmDec.pc = "loop"
    /\ webmDec.i < WebMMaxFrames(webmDec.duration, webmDec.options)
    /\ \E seeked \in BOOLEAN :
          webmDec' = [webmDec EXCEPT
              !.i = @ + 1,
              !.frames = IF seeked
                         THEN Append(@, [bitmap |-> webmDec.i,
                                         durationMs |-> WebMFrameDurationMs(webmDec.options)])
                         ELSE @]
    /\ UNCHANGED <<notDecode, gifDec>>

\* lines 79-109: reject when nothing was extracted, else resolve the asset
WebMFinish ==
    /\ webmDec.pc = "loop"
    /\ webmDec.i >= WebMMaxFrames(webmDec.duration, webmDec.options)
    /\ webmDec' = IF Len(webmDec.frames) = 0
                  THEN [webmDec EXCEPT !.pc = "rejected"]
                  ELSE [webmDec EXCEPT !.pc = "resolved",
                                       !.totalDurationMs = WebMTotal(webmDec)]
    /\ UNCHANGED <<notDecode, gifDec>>

(***************************************************************************)
(* Inputs of the decoders and the sampling calls                           *)
(***************************************************************************)
GifSources == UNION {[1..n -> GifSourceFrames] : n \in 0..MaxGifFrames}

WebMDurations == {NaN, Infinity, 0, 1, 2}
WebMFrameRates == {0, 1, 2, 50, 200}

WebMInputs ==
    {in \in [duration : WebMDurations,
             options : [frameRate : WebMFrameRates, maxFrames : 0..MaxWebMFrames]] :
        in.duration > 0 => WebMMaxFrames(in.duration, in.options) <= MaxWebMFrames}

SampleGetFrameAtTime ==
    \E t \in 0..MaxTimeMs :
       LET r == getFrameAtTime(gifAsset, t)
       IN  /\ sample' = [op |-> "getFrameAtTime", timeMs |-> t,
                         ok |-> r.ok, idx |-> r.idx]
           /\ UNCHANGED <<gifAsset, notSample>>

SampleGetFrameIndexAtTime ==
    \E t \in 0..MaxTimeMs :
       /\ sample' = [op |-> "getFrameIndexAtTime", timeMs |-> t,
                     ok |-> TRUE, idx |-> getFrameIndexAtTime(gifAsset, t)]
       /\ UNCHANGED <<gifAsset, notSample>>

SampleDrawGifAsset ==
    \E t \in 0..MaxTimeMs :
       LET r == drawGifAsset(gifAsset, t)
       IN  /\ sample' = [op |-> "drawGifAsset", timeMs |-> t,
                         ok |-> r.ok, idx |-> r.idx]
           /\ UNCHANGED <<gifAsset, notSample>>

SampleTimeUtility ==
    \E t \in 0..MaxTimeMs :
       /\ sample' = [op |-> "timeUtility", timeMs |-> t, ok |-> TRUE,
                     idx |-> getFrameAtTimeByCount(t, gifAsset.totalDurationMs,
                                                   Len(gifAsset.frames))]
       /\ UNCHANGED <<gifAsset, notSample>>

(***************************************************************************)
(* The project and the compositor (types and store of part_003,            *)
(* canvas/draw.ts, and the composite loops of CanvasStage.render,          *)
(* renderProjectToCanvas, ExportService and exportGif).                    *)
(*                                                                         *)
(* The asset table of a project is the set of ids it holds; the assets     *)
(* themselves are fixed.  A surface is the list of draws made on it since  *)
(* it was last cleared, oldest first; each draw covers the overlap region  *)
(* of the layers.  drawImage throws for the assets in broken.              *)
(***************************************************************************)
MaxLayers == 3  \* most layers of a composited project

\* settings.loopDurationMs = 'auto'
Auto == -2

AssetIds == {"img", "gifA", "vidA", "gifB"}

\* a 64 x 64 opaque red still
StillIds == {"red"}

AssetTable ==
    [a \in AssetIds \cup StillIds |->
        CASE a = "img"  -> [id |-> a, kind |-> "image", width |-> 80, height |-> 80]
          [] a = "gifA" -> [id |-> a, kind |-> "gif", width |-> 100, height |-> 100,
                            frames |-> <<1000, 1500>>, totalDurationMs |-> 2500]
          [] a = "vidA" -> [id |-> a, kind |-> "video", width |-> 100, height |-> 100,
                            durationMs |-> 4000]
          [] a = "gifB" -> [id |-> a, kind |-> "gif", width |-> 100, height |-> 100,
                            frames |-> <<6000>>, totalDurationMs |-> 6000]
          [] a = "red"  -> [id |-> a, kind |-> "image", width |-> 64, height |-> 64]]

DEFAULT_COMPOSITION_SETTINGS ==
    [width |-> 1920, height |-> 1080, fps |-> 30, loopDurationMs |-> Auto,
     background |-> [type |-> "transparent", color |-> ""]]

DEFAULT_LAYER_TRANSFORM ==
    [x |-> 0, y |-> 0, scaleX |-> 100, scaleY |-> 100, rotationDeg |-> 0,
     opacity |-> 100]

\* createNewProject
EmptyProject ==
    [assets |-> {}, layers |-> <<>>, settings |-> DEFAULT_COMPOSITION_SETTINGS]

\* aborted tells whether the pass ended with an exception; requested is the
\* timestamp the caller of the pass wanted; fill is what lies under the
\* draws: "transparent" or the color the surface was filled with
BlankCanvas ==
    [pass |-> "none", requested |-> 0, timeMs |-> 0, fill |-> "transparent",
     draws |-> <<>>, aborted |-> FALSE]

\* a background with no color given is { type: 'color' } or has color ''
Backgrounds ==
    {[type |-> "transparent", color |-> ""], [type |-> "color", color |-> "#336699"],
     [type |-> "color", color |-> ""]}

\* mutant: the surface is filled but not cleared
clearCanvas_KeepsDrawing(cv, background) ==
    [cv EXCEPT !.fill = IF background.type = "color" /\ background.color # ""
                        THEN background.color ELSE @]

\* clearCanvas: nothing of what the surface held remains; then the fill
clearCanvas(cv, background) ==
    [cv EXCEPT !.draws = <<>>,
               !.fill = IF background.type = "color" /\ background.color # ""
                        THEN background.color ELSE "transparent"]

\* ctx.globalAlpha = opacity: the canvas ignores a value outside [0, 1] and
\* keeps the alpha of the saved state, 1
GlobalAlpha(opacity) == IF opacity >= 0 /\ opacity <= 100 THEN opacity ELSE 100

\* mutant: the image is drawn with its top-left corner on the origin
DrawnRect_FromCorner(transform, asset) ==
    [left |-> transform.x, right |-> transform.x + asset.width,
     top |-> transform.y, bottom |-> transform.y + asset.height]

\* applyTransform, then drawImage(source, -width / 2, -height / 2, width,
\* height): the region of the canvas the image covers, for a rotation of
\* whole quarter turns
DrawnRect(transform, asset) ==
    LET turned == (transform.rotationDeg \div 90) % 2 = 1
        halfWidth == (asset.width * transform.scaleX) \div 200
        halfHeight == (asset.height * transform.scaleY) \div 200
        halfX == IF turned THEN halfHeight ELSE halfWidth
        halfY == IF turned THEN halfWidth ELSE halfHeight
    IN  [left |-> transform.x - halfX, right |-> transform.x + halfX,
         top |-> transform.y - halfY, bottom |-> transform.y + halfY]

\* ctx.drawImage of one source frame under the layer's transform and alpha
DrawImage(cv, layer, frame) ==
    IF layer.assetId \in broken THEN [cv EXCEPT !.thrown = TRUE]
    ELSE
    [cv EXCEPT !.draws = Append(@, [layer |-> layer.id,
                                    alpha |-> GlobalAlpha(layer.transform.opacity),
                                    asset |-> layer.assetId,
                                    frame |-> frame,
                                    rect |-> DrawnRect(layer.transform,
                                                       AssetTable[layer.assetId])])]

\* drawVideoAsset: assigns the element's position and draws at once; the
\* frame the element then shows is the one sought if the decoder was in
\* time (seeked), else the one of its earlier position
drawVideoAsset(cv, layer, asset, currentTimeMs, seeked) ==
    LET loopTime == JsMod(currentTimeMs, asset.durationMs)
    IN  [DrawImage(cv, layer, IF seeked THEN loopTime ELSE cv.videoTime)
            EXCEPT !.videoTime = loopTime, !.thrown = FALSE]

\* drawVideoAssetAsync: draws at once when within 0.1 s of the target, else
\* seeks and draws on 'seeked', or draws nothing when the 1000 ms timer wins
drawVideoAssetAsync(cv, layer, asset, currentTimeMs, seeked) ==
    LET loopTime == JsMod(currentTimeMs, asset.durationMs)
        apart == IF cv.videoTime >= loopTime THEN cv.videoTime - loopTime
                 ELSE loopTime - cv.videoTime
    IN  IF apart < 100
        THEN [DrawImage(cv, layer, cv.videoTime) EXCEPT !.thrown = FALSE]
        ELSE IF seeked
             THEN [DrawImage(cv, layer, loopTime)
                      EXCEPT !.videoTime = loopTime, !.thrown = FALSE]
             ELSE [cv EXCEPT !.videoTime = loopTime]

\* switch (asset.kind): draw the asset's sample at currentTimeMs
DrawAsset(cv, layer, asset, currentTimeMs, how) ==
    CASE asset.kind = "image" -> DrawImage(cv, layer, 0)
      [] asset.kind = "gif" ->
           LET r == drawGifAsset(asset, currentTimeMs)
           IN  IF r.ok THEN DrawImage(cv, layer, r.idx) ELSE cv
      [] asset.kind = "video" ->
           IF how.async
           THEN drawVideoAssetAsync(cv, layer, asset, currentTimeMs, how.seeked)
           ELSE drawVideoAsset(cv, layer, asset, currentTimeMs, how.seeked)

\* mutant: an exception of the draw leaves drawLayer
drawLayer_NoCatch(cv, layer, asset, currentTimeMs, how) ==
    IF ~layer.visible \/ layer.transform.opacity <= 0 THEN cv
    ELSE DrawAsset(cv, layer, asset, currentTimeMs, how)

\* drawLayer and drawLayerAsync (how.async): skip an invisible or fully
\* transparent layer, else draw the asset's sample inside try / catch
drawLayer(cv, layer, asset, currentTimeMs, how) ==
    IF ~layer.visible \/ layer.transform.opacity <= 0 THEN cv
    ELSE [DrawAsset(cv, layer, asset, currentTimeMs, how) EXCEPT !.thrown = FALSE]

\* mutant: the layer array is walked from its last element to its first
RECURSIVE DrawLayers_Reversed(_, _, _, _, _, _)
DrawLayers_Reversed(cv, layers, assets, i, currentTimeMs, how) ==
    IF i > Len(layers) \/ cv.thrown THEN cv
    ELSE LET layer == layers[Len(layers) + 1 - i]
             drawn == IF layer.assetId \in assets /\ (how.visibleOnly => layer.visible)
                      THEN drawLayer(cv, layer, AssetTable[layer.assetId],
                                     currentTimeMs, how)
                      ELSE cv
         IN  DrawLayers_Reversed(drawn, layers, assets, i + 1, currentTimeMs, how)

\* mutant: a layer is drawn whether or not the table holds its asset
RECURSIVE DrawLayers_NoAssetCheck(_, _, _, _, _, _)
DrawLayers_NoAssetCheck(cv, layers, assets, i, currentTimeMs, how) ==
    IF i > Len(layers) \/ cv.thrown THEN cv
    ELSE LET layer == layers[i]
             drawn == IF how.visibleOnly => layer.visible
                      THEN drawLayer(cv, layer, AssetTable[layer.assetId],
                                     currentTimeMs, how)
                      ELSE cv
         IN  DrawLayers_NoAssetCheck(drawn, layers, assets, i + 1, currentTimeMs, how)

\* for (const layer of layers) { const asset = assets[layer.assetId];
\*   if (asset [&& layer.visible]) drawLayer(...) }, from position i on; an
\* exception that leaves drawLayer ends the loop
RECURSIVE DrawLayers(_, _, _, _, _, _)
DrawLayers(cv, layers, assets, i, currentTimeMs, how) ==
    IF i > Len(layers) \/ cv.thrown THEN cv
    ELSE LET layer == layers[i]
             drawn == IF layer.assetId \in assets /\ (how.visibleOnly => layer.visible)
                      THEN drawLayer(cv, layer, AssetTable[layer.assetId],
                                     currentTimeMs, how)
                      ELSE cv
         IN  DrawLayers(drawn, layers, assets, i + 1, currentTimeMs, how)

\* one composite pass on the surface: clear with the background, then draw
\* the layers at currentTimeMs
CompositeAt(pass, requested, currentTimeMs, background, how) ==
    LET cv == DrawLayers(clearCanvas([draws |-> surface.draws, fill |-> surface.fill,
                                      videoTime |-> videoTime, thrown |-> FALSE],
                                     background),
                         project.layers, project.assets, 1, currentTimeMs, how)
    IN  /\ surface' = [pass |-> pass, requested |-> requested,
                       timeMs |-> currentTimeMs, fill |-> cv.fill,
                       draws |-> cv.draws, aborted |-> cv.thrown]
        /\ videoTime' = cv.videoTime

\* a pass at the time its caller gave, with the project's background
Composite(pass, currentTimeMs, how) ==
    CompositeAt(pass, currentTimeMs, currentTimeMs, project.settings.background, how)

\* transparency ? { type: 'transparent' } : project.settings.background
ExportBackground(transparency) ==
    IF transparency THEN [type |-> "transparent", color |-> ""]
    ELSE project.settings.background

PassTimes == {0, 4200}

\* CanvasStage.render
PreviewRender ==
    \E t \in PassTimes, seeked \in BOOLEAN :
       /\ Composite("render", t,
                    [visibleOnly |-> FALSE, async |-> FALSE, seeked |-> seeked])
       /\ UNCHANGED <<project, notComposite>>

\* renderProjectToCanvas
RenderProjectToCanvas ==
    \E t \in PassTimes, seeked \in BOOLEAN :
       /\ Composite("renderProjectToCanvas", t,
                    [visibleOnly |-> FALSE, async |-> FALSE, seeked |-> seeked])
       /\ UNCHANGED <<project, notComposite>>

\* ExportService.exportStaticImage: the layers at time 0, whatever the
\* timestamp the caller wants (ExportOptions has no field for it)
ExportStaticImage ==
    \E requested \in PassTimes, seeked \in BOOLEAN :
       /\ CompositeAt("exportStaticImage", requested, 0, project.settings.background,
                      [visibleOnly |-> TRUE, async |-> FALSE, seeked |-> seeked])
       /\ UNCHANGED <<project, notComposite>>

\* one frame of exportGif's loop, lines 184-196
ExportGifPass ==
    \E t \in PassTimes, seeked \in BOOLEAN, transparency \in BOOLEAN :
       /\ CompositeAt("exportGif", t, t, ExportBackground(transparency),
                      [visibleOnly |-> TRUE, async |-> FALSE, seeked |-> seeked])
       /\ UNCHANGED <<project, notComposite>>

\* one frame of exportProjectAsWebM's capture loop
CapturePass ==
    \E t \in PassTimes, seeked \in BOOLEAN :
       /\ Composite("exportProjectAsWebM", t,
                    [visibleOnly |-> TRUE, async |-> FALSE, seeked |-> seeked])
       /\ UNCHANGED <<project, notComposite>>

\* one frame of ExportService.exportWebMVideo's capture loop (drawLayerAsync)
CapturePassAsync ==
    \E t \in PassTimes, seeked \in BOOLEAN, transparency \in BOOLEAN :
       /\ CompositeAt("exportWebMVideo", t, t, ExportBackground(transparency),
                      [visibleOnly |-> TRUE, async |-> TRUE, seeked |-> seeked])
       /\ UNCHANGED <<project, notComposite>>

MaxStillLayers == 2  \* most layers of a project exported as a still

\* projects on a 100 x 100 transparent canvas whose layers show the red
\* still at several positions, at full and at half size
StillProjects ==
    LET StillLayer(id, at) ==
            [id |-> id, assetId |-> "red", visible |-> TRUE,
             transform |-> [DEFAULT_LAYER_TRANSFORM EXCEPT
                               !.x = at[1], !.y = at[2],
                               !.scaleX = at[3], !.scaleY = at[3]]]
        Places == {0, 50, 68} \X {0, 50, 68} \X {50, 100}
    IN  {[EmptyProject EXCEPT !.assets = {"red"},
                              !.settings = [@ EXCEPT !.width = 100, !.height = 100],
                              !.layers = [i \in DOMAIN at |-> StillLayer(i, at[i])]] :
            at \in UNION {[1..n -> Places] : n \in 1..MaxStillLayers}}

\* the layers a loaded project can hold: ids are distinct, the asset may be
\* missing from the table; a layer is chosen as <<assetId, visible, opacity>>
LayerChoices ==
    (AssetIds \X {TRUE} \X {50, 100}) \cup {<<"img", FALSE, 100>>, <<"gifA", TRUE, 0>>}

LayerOf(id, choice) ==
    [id |-> id, assetId |-> choice[1], visible |-> choice[2],
     transform |-> [DEFAULT_LAYER_TRANSFORM EXCEPT !.opacity = choice[3]]]

LayerLists ==
    UNION {{[i \in 1..n |-> LayerOf(i, pick[i])] :
                pick \in [1..n -> LayerChoices]} : n \in 0..MaxLayers}

CompositeProjects ==
    {[EmptyProject EXCEPT !.assets = {"img", "gifA", "vidA"}, !.layers = ls] :
        ls \in LayerLists}

MaxBackgroundLayers == 2  \* most layers of a project with a background

\* projects with each kind of settings.background
BackgroundProjects ==
    {[p EXCEPT !.settings = [@ EXCEPT !.background = background]] :
        p \in {q \in CompositeProjects : Len(q.layers) <= MaxBackgroundLayers},
        background \in Backgrounds}

MaxFailLayers == 3  \* most layers of a project with broken sources

\* projects of visible, opaque layers over a still, a GIF and a video
FailingProjects ==
    {[EmptyProject EXCEPT !.assets = {"img", "gifA", "vidA"},
                          !.layers = [i \in DOMAIN pick |->
                                         LayerOf(i, <<pick[i], TRUE, 100>>)]] :
        pick \in UNION {[1..n -> {"img", "gifA", "vidA"}] : n \in 1..MaxFailLayers}}

(***************************************************************************)
(* The timeline of the store (part_003), the preview clock                 *)
(* (CanvasStage.animate) and the loop duration of an export                *)
(* (ExportService.calculateLoopDuration).  Speed is held in hundredths.    *)
(***************************************************************************)
DefaultLoopDurationMs == 5000

DEFAULT_TIMELINE_STATE ==
    [currentTime |-> 0, isPlaying |-> TRUE, speed |-> 100, loopStartTime |-> 0]

\* arg is the number the call was given: a speed, or the time since the
\* last animation frame; requested tells whether the call asked for a
\* further animation frame
NoCall ==
    [op |-> "none", before |-> DEFAULT_TIMELINE_STATE, maxDuration |-> 0, arg |-> 0,
     requested |-> FALSE]

\* Math.max(0, time)
setCurrentTime(tl, time) ==
    [tl EXCEPT !.currentTime = IF time = NaN THEN NaN ELSE Max(0, time)]

play(tl) == [tl EXCEPT !.isPlaying = TRUE]

pause(tl) == [tl EXCEPT !.isPlaying = FALSE]

\* mutant: stop only halts playback
stop_KeepsTime(tl) == [tl EXCEPT !.isPlaying = FALSE]

stop(tl) == [tl EXCEPT !.isPlaying = FALSE, !.currentTime = 0]

\* mutant: the speed is stored as given
setSpeed_Unclamped(tl, speed) == [tl EXCEPT !.speed = speed]

\* Math.max(0.1, Math.min(2, speed)); speed is one of the numbers of the
\* speed menu or any other finite number
setSpeed(tl, speed) == [tl EXCEPT !.speed = Max(10, Min(200, speed))]

\* the largest member of a non-empty set of numbers: Math.max(...values)
MaxOf(S) == CHOOSE m \in S : \A x \in S : x <= m

\* asset.kind === 'gif' ? asset.totalDurationMs : asset.durationMs
AssetDurationMs(asset) ==
    IF asset.kind = "gif" THEN asset.totalDurationMs ELSE asset.durationMs

\* CanvasStage.animate, "Handle looping": the animated assets of the asset
\* table, whether or not a layer references them
PreviewMaxDuration(p) ==
    LET animatedAssets ==
            {a \in p.assets : AssetTable[a].kind \in {"gif", "video"}}
        fromAssets ==
            IF animatedAssets # {}
            THEN MaxOf({AssetDurationMs(AssetTable[a]) : a \in animatedAssets})
            ELSE DefaultLoopDurationMs
    IN  IF p.settings.loopDurationMs # Auto THEN p.settings.loopDurationMs
        ELSE fromAssets

\* the loop of calculateLoopDuration from layer i on, maxDuration so far
RECURSIVE LoopOverLayers(_, _, _)
LoopOverLayers(p, i, maxDuration) ==
    IF i > Len(p.layers) THEN maxDuration
    ELSE LET layer == p.layers[i]
         IN  IF layer.assetId \notin p.assets \/ ~layer.visible
             THEN LoopOverLayers(p, i + 1, maxDuration)
             ELSE LET asset == AssetTable[layer.assetId]
                  IN  IF asset.kind \in {"gif", "video"}
                      THEN LoopOverLayers(p, i + 1,
                                          Max(maxDuration, AssetDurationMs(asset)))
                      ELSE LoopOverLayers(p, i + 1, maxDuration)

\* ExportService.calculateLoopDuration: maxDuration starts at the default
calculateLoopDuration(p) ==
    IF p.settings.loopDurationMs # Auto THEN p.settings.loopDurationMs
    ELSE LoopOverLayers(p, 1, DefaultLoopDurationMs)

SetCurrentTime ==
    \E time \in {-100, 1000, 7000} :
       /\ timeline' = setCurrentTime(timeline, time)
       /\ call' = [NoCall EXCEPT !.op = "setCurrentTime", !.before = timeline]
       /\ UNCHANGED <<compositeVars, notPreview>>

Play ==
    /\ timeline' = play(timeline)
    /\ call' = [NoCall EXCEPT !.op = "play", !.before = timeline]
    /\ UNCHANGED <<compositeVars, notPreview>>

Pause ==
    /\ timeline' = pause(timeline)
    /\ call' = [NoCall EXCEPT !.op = "pause", !.before = timeline]
    /\ UNCHANGED <<compositeVars, notPreview>>

Stop ==
    /\ timeline' = stop(timeline)
    /\ call' = [NoCall EXCEPT !.op = "stop", !.before = timeline]
    /\ UNCHANGED <<compositeVars, notPreview>>

SetSpeed ==
    \E speed \in {5, 100, 150, 500} :
       /\ timeline' = setSpeed(timeline, speed)
       /\ call' = [NoCall EXCEPT !.op = "setSpeed", !.before = timeline,
                                 !.arg = speed]
       /\ UNCHANGED <<compositeVars, notPreview>>

\* the time between two animation frames, ms
DeltaTimes == {1000, 10000}

\* mutant: the clock runs past the end of the loop
LoopedTime_NoWrap(newTime, maxDuration) == newTime

\* newTime % maxDuration
LoopedTime(newTime, maxDuration) == JsMod(newTime, maxDuration)

\* CanvasStage.animate: one animation frame.  Paused, it renders and stops;
\* playing, it advances the clock, wraps it at the loop duration and renders
AnimateFrame ==
    \E deltaTime \in DeltaTimes, seeked \in BOOLEAN :
       LET how == [visibleOnly |-> FALSE, async |-> FALSE, seeked |-> seeked]
           newTime == timeline.currentTime + (deltaTime * timeline.speed) \div 100
           maxDuration == PreviewMaxDuration(project)
           loopedTime == LoopedTime(newTime, maxDuration)
       IN  /\ IF ~timeline.isPlaying
              THEN /\ Composite("render", timeline.currentTime, how)
                   /\ call' = [NoCall EXCEPT !.op = "animate", !.before = timeline]
                   /\ UNCHANGED timeline
              ELSE /\ timeline' = setCurrentTime(timeline, loopedTime)
                   /\ Composite("render", timeline'.currentTime, how)
                   /\ call' = [op |-> "animate", before |-> timeline,
                               maxDuration |-> maxDuration, arg |-> deltaTime,
                               requested |-> TRUE]
           /\ UNCHANGED <<project, notPreview>>

\* ExportService.export without options.loopDurationMs, and
\* getRecommendedSettings: the export's loop duration
CalculateLoopDuration ==
    /\ call' = [op |-> "calculateLoopDuration", before |-> timeline,
                maxDuration |-> calculateLoopDuration(project), arg |-> 0,
                requested |-> FALSE]
    /\ UNCHANGED <<timeline, compositeVars, notPreview>>

\* the fallback of the export dialog
DialogFallbackMs == 3000

\* Timeline, totalDuration: the explicit duration, else the longest animated
\* asset of the asset table, else the default
totalDuration(p) ==
    LET animatedAssets ==
            {a \in p.assets : AssetTable[a].kind \in {"gif", "video"}}
    IN  IF p.settings.loopDurationMs # Auto THEN p.settings.loopDurationMs
        ELSE IF animatedAssets = {} THEN DefaultLoopDurationMs
        ELSE MaxOf({AssetDurationMs(AssetTable[a]) : a \in animatedAssets})

\* ExportDialog, getActualDuration: the same with a fallback of its own
getActualDuration(p) ==
    LET animatedAssets ==
            {a \in p.assets : AssetTable[a].kind \in {"gif", "video"}}
    IN  IF p.settings.loopDurationMs # Auto THEN p.settings.loopDurationMs
        ELSE IF animatedAssets # {}
        THEN MaxOf({AssetDurationMs(AssetTable[a]) : a \in animatedAssets})
        ELSE DialogFallbackMs

\* the Timeline renders
TimelineTotalDuration ==
    /\ call' = [op |-> "totalDuration", before |-> timeline,
                maxDuration |-> totalDuration(project), arg |-> 0,
                requested |-> FALSE]
    /\ UNCHANGED <<timeline, compositeVars, notPreview>>

\* the export dialog resolves the duration it hands to the export
GetActualDuration ==
    /\ call' = [op |-> "getActualDuration", before |-> timeline,
                maxDuration |-> getActualDuration(project), arg |-> 0,
                requested |-> FALSE]
    /\ UNCHANGED <<timeline, compositeVars, notPreview>>

MaxLoopLayers == 2  \* most layers of a project whose loop duration is resolved

\* projects with any asset table and layers that may be hidden or dangling
LoopProjects ==
    {[EmptyProject EXCEPT !.assets = as, !.layers = ls,
                          !.settings.loopDurationMs = loop] :
        as \in SUBSET AssetIds,
        ls \in UNION {{[i \in 1..n |-> LayerOf(i, <<pick[i][1], pick[i][2], 100>>)] :
                          pick \in [1..n -> AssetIds \X BOOLEAN]} :
                      n \in 0..MaxLoopLayers},
        loop \in {Auto, 3000}}

\* a project of one GIF layer
OneGifProject ==
    [EmptyProject EXCEPT !.assets = {"gifA"},
                         !.layers = <<LayerOf(1, <<"gifA", TRUE, 100>>)>>]

(***************************************************************************)
(* exportGif (gif/decode.ts 159-221).  The function has no await: a call   *)
(* runs to its end before another starts.  The time of frame i is the      *)
(* fraction i * loopDurationMs / frameCount, held as [num, den].  The loop *)
(* durations taken are whole multiples of 250 ms, for which the floating    *)
(* point product (loopDurationMs / 1000) * fps is exact.                   *)
(***************************************************************************)
MaxExportFrames == 4  \* most frames of one exported GIF
MaxClock == 6         \* latest reading of the wall clock

\* Math.ceil((loopDurationMs / 1000) * fps)
FrameCount(options) == CeilDiv(options.loopDurationMs * options.fps, 1000)

\* mutant: the delay is taken from the wall clock
FrameDuration_WallClock(fps) == 1 + clock

\* Math.round(1000 / fps)
FrameDuration(fps) == (2000 + fps) \div (2 * fps)

\* mutant: the frames are stamped one step late
FrameTime_OneLate(frame, frameCount, loopDurationMs) ==
    [num |-> (frame + 1) * loopDurationMs, den |-> frameCount]

\* (frame / frameCount) * loopDurationMs
FrameTime(frame, frameCount, loopDurationMs) ==
    [num |-> frame * loopDurationMs, den |-> frameCount]

IdleGifRun ==
    [pc |-> "idle", frameCount |-> 0, frameDuration |-> 0, frame |-> 0,
     written |-> <<>>, elapsed |-> 0]

\* lines 164-182: frameCount, frameDuration and the canvas
ExportGifStart(r) ==
    /\ gifRuns[r].pc = "idle"
    /\ \A q \in DOMAIN gifRuns : gifRuns[q].pc # "loop"
    /\ gifRuns' = [gifRuns EXCEPT ![r] =
                      [IdleGifRun EXCEPT !.pc = "loop",
                                         !.frameCount = FrameCount(gifOptions),
                                         !.frameDuration = FrameDuration(gifOptions.fps)]]
    /\ UNCHANGED <<gifOptions, clock, compositeVars, notExportGif>>

\* lines 184-212: one frame is composited at its time and written with the
\* delay frameDuration; rendering takes renderTime of wall clock
ExportGifFrame(r) ==
    \E renderTime \in {0, 1}, seeked \in BOOLEAN :
       LET run == gifRuns[r]
           currentTime == FrameTime(run.frame, run.frameCount,
                                    gifOptions.loopDurationMs)
       IN  /\ run.pc = "loop"
           /\ run.frame < run.frameCount
           /\ clock + renderTime <= MaxClock
           /\ Composite("exportGif", currentTime.num \div currentTime.den,
                        [visibleOnly |-> TRUE, async |-> FALSE, seeked |-> seeked])
           /\ gifRuns' = [gifRuns EXCEPT ![r] =
                 [run EXCEPT !.frame = @ + 1,
                             !.written = Append(@, [time |-> currentTime,
                                                    delay |-> run.frameDuration]),
                             !.elapsed = @ + renderTime]]
           /\ clock' = clock + renderTime
           /\ UNCHANGED <<gifOptions, project, notExportGif>>

\* lines 214-220: finish and return the blob
ExportGifFinish(r) ==
    /\ gifRuns[r].pc = "loop"
    /\ gifRuns[r].frame >= gifRuns[r].frameCount
    /\ gifRuns' = [gifRuns EXCEPT ![r].pc = "done"]
    /\ UNCHANGED <<gifOptions, clock, compositeVars, notExportGif>>

\* the options of an export: fps and loop duration
GifExportOptions ==
    {o \in [fps : {1, 2, 4, 10, 15, 30},
            loopDurationMs : {250, 500, 1000, 1500, 2000}] :
        FrameCount(o) <= MaxExportFrames}

(***************************************************************************)
(* The layer store and the mutators of a layer's transform                 *)
(* Positions are canvas pixels; scale factors and opacity are hundredths.  *)
(* The edited project holds at most MaxStoreLayers layers, and the guards  *)
(* of the actions keep positions within 0..MaxPos and scale factors at     *)
(* most MaxScalePct.  Layers are never locked here.  The undo stack, which *)
(* Ctrl+V pushes to, is read by undo alone; here it is left as it is, and  *)
(* the project store below has it.                                         *)
(***************************************************************************)
MaxStoreLayers == 1  \* most layers of the edited project
MaxPos == 20         \* farthest position of a layer
MaxScalePct == 100   \* largest scale factor of a layer

\* the least scale a resize leaves: Math.max(0.1, ...)
MinScale == 10

\* the offset of a pasted layer from the layer it was copied from
PasteOffset == 20

\* generateId(): an id that no layer of the project carries
NewLayerId(p) ==
    CHOOSE n \in 1..(Len(p.layers) + 1) :
        /\ \A i \in 1..Len(p.layers) : p.layers[i].id # n
        /\ \A m \in 1..(n - 1) : \E i \in 1..Len(p.layers) : p.layers[i].id = m

addLayer(p, assetId) ==
    IF assetId \notin p.assets THEN p
    ELSE LET asset == AssetTable[assetId]
             centeredX == (p.settings.width - asset.width) \div 2
             centeredY == (p.settings.height - asset.height) \div 2
             layer == [id |-> NewLayerId(p), assetId |-> assetId, visible |-> TRUE,
                       transform |-> [DEFAULT_LAYER_TRANSFORM EXCEPT
                                         !.x = centeredX, !.y = centeredY]]
         IN  [p EXCEPT !.layers = Append(@, layer)]

\* { ...target, ...updates }
Spread(target, updates) ==
    [f \in DOMAIN target |-> IF f \in DOMAIN updates THEN updates[f] ELSE target[f]]

removeLayer(p, layerId) ==
    LET Kept(layer) == layer.id # layerId
    IN  [p EXCEPT !.layers = SelectSeq(@, Kept)]

updateLayer(p, layerId, updates) ==
    [p EXCEPT !.layers =
        [i \in 1..Len(p.layers) |->
            IF p.layers[i].id = layerId
            THEN Spread(p.layers[i], updates)
            ELSE p.layers[i]]]

\* the transform given is merged into the layer's as it comes
updateLayerTransform(p, layerId, transform) ==
    [p EXCEPT !.layers =
        [i \in 1..Len(p.layers) |->
            IF p.layers[i].id = layerId
            THEN [p.layers[i] EXCEPT !.transform = Spread(@, transform)]
            ELSE p.layers[i]]]

\* the layers of the project that are selected, in layer order
SelectedLayers(p, ids) ==
    LET Selected(layer) == \E k \in 1..Len(ids) : ids[k] = layer.id
    IN  SelectSeq(p.layers, Selected)

\* parseFloat(e.target.value) || fallback: an empty field and a zero both
\* give the fallback
ParseFloatOr(typed, fallback) ==
    IF typed = NaN \/ typed = 0 THEN fallback ELSE typed

\* Math.cos and Math.sin of the rotations in use, to the hundredth of a pixel
Cos(deg) == CASE deg = 0 -> 1 [] deg = 90 -> 0
Sin(deg) == CASE deg = 0 -> 0 [] deg = 90 -> 1

ResizeHandles ==
    {"top-left", "top-center", "top-right", "center-right",
     "bottom-right", "bottom-center", "bottom-left", "center-left"}

\* the sign with which a handle adds the horizontal delta to scaleX, 0 for a
\* handle that leaves scaleX and x alone; likewise for the vertical delta
HandleSignX(handle) ==
    CASE handle \in {"top-left", "bottom-left", "center-left"} -> -1
      [] handle \in {"top-right", "center-right", "bottom-right"} -> 1
      [] OTHER -> 0

HandleSignY(handle) ==
    CASE handle \in {"top-left", "top-center", "top-right"} -> -1
      [] handle \in {"bottom-left", "bottom-center", "bottom-right"} -> 1
      [] OTHER -> 0

\* Math.max(0.1, scale +- (delta * 2) / size) of one case of the switch
ResizedScale(scale, sign, delta, size) ==
    IF sign = 0 THEN scale
    ELSE Max(MinScale, scale + sign * ((delta * 200) \div size))

\* position + delta / 2 of one case of the switch
ResizedPos(pos, sign, delta) ==
    IF sign = 0 THEN pos ELSE pos + delta \div 2

applyResizeTransform(startTransform, deltaX, deltaY, handle, asset, maintainAspectRatio) ==
    LET rot == startTransform.rotationDeg
        adjustedDeltaX ==
            IF rot # 0 THEN deltaX * Cos(rot) + deltaY * Sin(rot) ELSE deltaX
        adjustedDeltaY ==
            IF rot # 0 THEN (0 - deltaX) * Sin(rot) + deltaY * Cos(rot) ELSE deltaY
        scaledX == ResizedScale(startTransform.scaleX, HandleSignX(handle),
                                adjustedDeltaX, asset.width)
        scaledY == ResizedScale(startTransform.scaleY, HandleSignY(handle),
                                adjustedDeltaY, asset.height)
        horizontal == HandleSignX(handle) # 0
        newScaleX ==
            IF maintainAspectRatio /\ ~horizontal
            THEN (((scaledY * asset.width) \div asset.height) * asset.height)
                     \div asset.width
            ELSE scaledX
        newScaleY ==
            IF maintainAspectRatio /\ horizontal
            THEN (((scaledX * asset.height) \div asset.width) * asset.width)
                     \div asset.height
            ELSE scaledY
    IN  [startTransform EXCEPT
            !.scaleX = newScaleX,
            !.scaleY = newScaleY,
            !.x = ResizedPos(@, HandleSignX(handle), adjustedDeltaX),
            !.y = ResizedPos(@, HandleSignY(handle), adjustedDeltaY)]

\* the resize branch of CanvasStage's handleMouseMove: the transform it
\* hands to updateLayerTransform
ResizeByHandle(initialTransform, deltaX, deltaY, resizeHandle, currentAsset) ==
    [x |-> ResizedPos(initialTransform.x, HandleSignX(resizeHandle), deltaX),
     y |-> ResizedPos(initialTransform.y, HandleSignY(resizeHandle), deltaY),
     scaleX |-> ResizedScale(initialTransform.scaleX, HandleSignX(resizeHandle),
                             deltaX, currentAsset.width),
     scaleY |-> ResizedScale(initialTransform.scaleY, HandleSignY(resizeHandle),
                             deltaY, currentAsset.height)]

\* Ctrl+V: each copied layer whose asset the project still holds is added
\* anew, given the copied layer's properties and its transform moved by the
\* paste offset; gives the project and the ids of the new layers
RECURSIVE PasteCopied(_, _, _, _)
PasteCopied(copied, i, p, newLayerIds) ==
    IF i > Len(copied) THEN [project |-> p, newLayerIds |-> newLayerIds]
    ELSE LET copiedLayer == copied[i]
             newLayerId == NewLayerId(p)
             added == addLayer(p, copiedLayer.assetId)
             updated == updateLayer(added, newLayerId,
                                    [visible |-> copiedLayer.visible])
             moved == updateLayerTransform(updated, newLayerId,
                          [copiedLayer.transform EXCEPT
                              !.x = @ + PasteOffset, !.y = @ + PasteOffset])
         IN  IF copiedLayer.assetId \in p.assets
             THEN PasteCopied(copied, i + 1, moved, Append(newLayerIds, newLayerId))
             ELSE PasteCopied(copied, i + 1, p, newLayerIds)

\* the layers are within the bounds of the model
WithinStoreBounds(p) ==
    /\ Len(p.layers) <= MaxStoreLayers
    /\ \A i \in 1..Len(p.layers) :
          /\ p.layers[i].transform.x \in 0..MaxPos
          /\ p.layers[i].transform.y \in 0..MaxPos
          /\ p.layers[i].transform.scaleX <= MaxScalePct
          /\ p.layers[i].transform.scaleY <= MaxScalePct

AddLayer ==
    \E assetId \in {"img", "gifB"} :
        /\ project' = addLayer(project, assetId)
        /\ WithinStoreBounds(project')
        /\ UNCHANGED <<storeVars, notStore>>

RemoveLayer ==
    \E i \in 1..Len(project.layers) :
        LET layerId == project.layers[i].id
            Others(id) == id # layerId
        IN  /\ project' = removeLayer(project, layerId)
            /\ selectedLayerIds' = SelectSeq(selectedLayerIds, Others)
            /\ UNCHANGED <<copiedLayers, notStore>>

SelectLayer ==
    \E i \in 1..Len(project.layers) :
        /\ selectedLayerIds' = <<project.layers[i].id>>
        /\ UNCHANGED <<project, copiedLayers, notStore>>

\* Ctrl+C
CopyLayers ==
    /\ Len(selectedLayerIds) > 0
    /\ copiedLayers' = SelectedLayers(project, selectedLayerIds)
    /\ UNCHANGED <<project, selectedLayerIds, notStore>>

\* Ctrl+V
PasteLayers ==
    /\ Len(copiedLayers) > 0
    /\ LET pasted == PasteCopied(copiedLayers, 1, project, <<>>)
       IN  /\ project' = pasted.project
           /\ selectedLayerIds' = IF Len(pasted.newLayerIds) > 0
                                  THEN pasted.newLayerIds
                                  ELSE selectedLayerIds
    /\ WithinStoreBounds(project')
    /\ UNCHANGED <<copiedLayers, notStore>>

\* the transforms a caller of the store hands to updateLayerTransform
StoreTransforms ==
    {[opacity |-> 150], [opacity |-> -20], [scaleX |-> 1, scaleY |-> 1],
     [x |-> 20, y |-> 20, opacity |-> 50]}

\* a call of the store's updateLayerTransform, for a layer of the project or
\* for an id that names none
UpdateLayerTransform ==
    \E layerId \in 1..(MaxStoreLayers + 1), transform \in StoreTransforms :
        /\ project' = updateLayerTransform(project, layerId, transform)
        /\ WithinStoreBounds(project')
        /\ UNCHANGED <<storeVars, notStore>>

\* the Inspector edits the first selected layer
InspectedLayer == SelectedLayers(project, selectedLayerIds)[1]

InspectorX ==
    /\ Len(SelectedLayers(project, selectedLayerIds)) > 0
    /\ \E typed \in {NaN, 20} :
          project' = updateLayerTransform(project, InspectedLayer.id,
                                          [x |-> ParseFloatOr(typed, 0)])
    /\ WithinStoreBounds(project')
    /\ UNCHANGED <<storeVars, notStore>>

InspectorY ==
    /\ Len(SelectedLayers(project, selectedLayerIds)) > 0
    /\ \E typed \in {NaN, 20} :
          project' = updateLayerTransform(project, InspectedLayer.id,
                                          [y |-> ParseFloatOr(typed, 0)])
    /\ WithinStoreBounds(project')
    /\ UNCHANGED <<storeVars, notStore>>

\* the field's min of 0.1 bounds its stepper, not what is typed
InspectorScaleX ==
    /\ Len(SelectedLayers(project, selectedLayerIds)) > 0
    /\ \E typed \in {NaN, 1, 100} :
          project' = updateLayerTransform(project, InspectedLayer.id,
                                          [scaleX |-> ParseFloatOr(typed, 100)])
    /\ WithinStoreBounds(project')
    /\ UNCHANGED <<storeVars, notStore>>

InspectorScaleY ==
    /\ Len(SelectedLayers(project, selectedLayerIds)) > 0
    /\ \E typed \in {NaN, 1, 100} :
          project' = updateLayerTransform(project, InspectedLayer.id,
                                          [scaleY |-> ParseFloatOr(typed, 100)])
    /\ WithinStoreBounds(project')
    /\ UNCHANGED <<storeVars, notStore>>

InspectorRotation ==
    /\ Len(SelectedLayers(project, selectedLayerIds)) > 0
    /\ \E typed \in {NaN, 90} :
          project' = updateLayerTransform(project, InspectedLayer.id,
                                          [rotationDeg |-> ParseFloatOr(typed, 0)])
    /\ WithinStoreBounds(project')
    /\ UNCHANGED <<storeVars, notStore>>

\* a range input of min 0 and max 1: the browser keeps its value in [0, 1]
InspectorOpacity ==
    /\ Len(SelectedLayers(project, selectedLayerIds)) > 0
    /\ \E slid \in {50, 100} :
          project' = updateLayerTransform(project, InspectedLayer.id,
                                          [opacity |-> slid])
    /\ WithinStoreBounds(project')
    /\ UNCHANGED <<storeVars, notStore>>

\* the pointer's travel from the handle it went down on, one per direction
ResizeDeltas == {<<-40, -40>>, <<40, 40>>}

\* CanvasStage: the mouse goes down on a resize handle of a selected layer
\* and moves; the transform at mouse-down is the layer's
HandleMouseMove ==
    \E k \in 1..Len(SelectedLayers(project, selectedLayerIds)),
       resizeHandle \in ResizeHandles, delta \in ResizeDeltas :
        LET layer == SelectedLayers(project, selectedLayerIds)[k]
        IN  /\ layer.assetId \in project.assets
            /\ project' = updateLayerTransform(project, layer.id,
                              ResizeByHandle(layer.transform, delta[1], delta[2],
                                             resizeHandle,
                                             AssetTable[layer.assetId]))
            /\ WithinStoreBounds(project')
            /\ UNCHANGED <<storeVars, notStore>>

\* the pointer-driven stage: a resize interaction on a selected layer, with
\* or without shift held
HandlePointerMove ==
    \E k \in 1..Len(SelectedLayers(project, selectedLayerIds)),
       handle \in ResizeHandles, delta \in ResizeDeltas, shiftKey \in BOOLEAN :
        LET layer == SelectedLayers(project, selectedLayerIds)[k]
        IN  /\ layer.assetId \in project.assets
            /\ project' = updateLayerTransform(project, layer.id,
                              applyResizeTransform(layer.transform, delta[1],
                                                   delta[2], handle,
                                                   AssetTable[layer.assetId],
                                                   shiftKey))
            /\ WithinStoreBounds(project')
            /\ UNCHANGED <<storeVars, notStore>>

\* a project of one image asset on a canvas of the asset's size
StoreProject ==
    [EmptyProject EXCEPT !.assets = {"img"},
                         !.settings = [@ EXCEPT !.width = 80, !.height = 80]]


(***************************************************************************)
(* Capture export (media/recorder.ts exportWebM, ExportService.export and  *)
(* exportWebMVideo of export.ts, exportProjectAsWebM of export/index.ts).  *)
(*                                                                         *)
(* capture.now is the wall clock.  A timer or an animation frame that is   *)
(* due runs before the clock moves on; the clock then jumps to the next    *)
(* due callback.  One composite of the render loop is one step: what it    *)
(* draws is the compositor's concern, here only when it runs and with      *)
(* which timestamp.  The browser reports 'video/webm' as supported         *)
(* whenever it supports it with some codec.  A recorder that fails fires   *)
(* 'error' and then 'stop'; stop() on an inactive recorder does nothing.   *)
(***************************************************************************)
RafPeriodMs == 50       \* time between two animation frames
TrailingBufferMs == 100

WebM == "video/webm"
Vp8 == "video/webm;codecs=vp8"
Vp9 == "video/webm;codecs=vp9"
Vp8Alpha == "video/webm;codecs=vp8,alpha"
Vp9Alpha == "video/webm;codecs=vp9,alpha"

\* what MediaRecorder.isTypeSupported can report
SupportSets ==
    {S \in SUBSET {WebM, Vp8, Vp9, Vp8Alpha, Vp9Alpha} : S # {} => WebM \in S}

\* mutant: the support test always passes
supportsWebMRecording_Always(supported) == supported = supported

supportsWebMRecording(supported) ==
    WebM \in supported \/ Vp8 \in supported \/ Vp9 \in supported

\* recorder.ts 47-62: "Get the best supported MIME type"
BestMimeType(supported, transparent) ==
    IF transparent
    THEN IF Vp9Alpha \in supported THEN Vp9Alpha
         ELSE IF Vp8Alpha \in supported THEN Vp8Alpha ELSE WebM
    ELSE IF Vp9 \in supported THEN Vp9
         ELSE IF Vp8 \in supported THEN Vp8 ELSE WebM

NoTimer == [set |-> FALSE, due |-> 0]

IdleCapture ==
    [path |-> "none", supported |-> {}, transparent |-> FALSE,
     loopDurationMs |-> 0, fps |-> 0,
     pc |-> "idle", error |-> "", blob |-> FALSE, events |-> {},
     now |-> 0,
     promise |-> "none", streamCreated |-> FALSE, recorder |-> "none",
     mimeType |-> "", startedAt |-> 0, timer |-> NoTimer, stoppedAt |-> -1,
     stopEvent |-> FALSE, tracksStopped |-> FALSE,
     raf |-> NoTimer, animationStart |-> 0, currentFrame |-> 0,
     frame |-> [timeMs |-> 0, elapsed |-> 0], firstFrameRecorder |-> "",
     loopEndedAt |-> -1, loopEndedBeforeStop |-> FALSE]

\* onProgress(...): the event, with its place in the stream, the time since
\* the loop's start and whether the recorder's stop callback had delivered
\* the container when it was emitted; failed marks the event of the catch
\* block, whose message starts with "Export failed: "
Emit(c, stage, progress, failed) ==
    [c EXCEPT !.events = @ \cup {[stage |-> stage, progress |-> progress,
                                  failed |-> failed,
                                  seq |-> Cardinality(c.events) + 1,
                                  at |-> c.now - c.animationStart,
                                  delivered |-> c.promise = "resolved"]}]

\* exportWebM up to the return of its promise: lines 41-103
exportWebM(c) ==
    IF ~supportsWebMRecording(c.supported)
    THEN [c EXCEPT !.promise = "rejected",
                   !.error = "WebM recording is not supported in this browser"]
    ELSE LET mimeType == BestMimeType(c.supported, c.transparent)
         IN  IF mimeType \notin c.supported
             THEN \* new MediaRecorder throws NotSupportedError in the executor
                  [c EXCEPT !.streamCreated = TRUE, !.promise = "rejected",
                            !.error = "NotSupportedError"]
             ELSE [c EXCEPT !.streamCreated = TRUE, !.promise = "pending",
                            !.recorder = "recording", !.mimeType = mimeType,
                            !.startedAt = c.now,
                            !.timer = [set |-> TRUE, due |-> c.now + c.loopDurationMs]]

\* Math.ceil((loopDurationMs / 1000) * fps)
CaptureFrameCount(c) == CeilDiv(c.loopDurationMs * c.fps, 1000)

\* one composite of a render loop, at timestamp timeMs
CompositeFrame(c, timeMs, elapsed) ==
    [c EXCEPT !.frame = [timeMs |-> timeMs, elapsed |-> elapsed],
              !.currentFrame = @ + 1,
              !.firstFrameRecorder = IF c.currentFrame = 0 THEN c.recorder ELSE @]

\* the loop does not request another frame
EndLoop(c) ==
    [c EXCEPT !.raf = NoTimer, !.loopEndedAt = c.now,
              !.loopEndedBeforeStop = c.recorder = "recording"]

\* ExportService.export, catch block (lines 95-102)
ExportFailed(c) ==
    [Emit(c, "complete", 0, TRUE) EXCEPT !.pc = "rejected"]

\* ExportService.export with format 'webm' up to the await of the recording
\* promise (export.ts 41-45, 81-90, 241-328)
ExportWebMVideoCall ==
    /\ capture.pc = "called"
    /\ capture.path = "service"
    /\ LET c0 == Emit(capture, "preparing", 0, FALSE)
       IN  IF ~supportsWebMRecording(capture.supported)
           THEN capture' = ExportFailed([c0 EXCEPT !.error =
                               "WebM recording is not supported in this browser"])
           ELSE LET c1 == Emit(Emit(c0, "preparing", 10, FALSE), "rendering", 25, FALSE)
                    c2 == exportWebM(c1)
                    c3 == [c2 EXCEPT !.animationStart = c2.now,
                                     !.raf = [set |-> TRUE, due |-> c2.now + RafPeriodMs]]
                    c4 == Emit(c3, "encoding", 80, FALSE)
                IN  capture' = IF c4.promise = "rejected" THEN ExportFailed(c4)
                               ELSE [c4 EXCEPT !.pc = "awaiting"]
    /\ UNCHANGED <<notRuns, seekWait, shared>>

\* animate of exportWebMVideo (export.ts 288-316)
ExportWebMVideoAnimate ==
    /\ capture.path = "service"
    /\ capture.raf.set
    /\ capture.now >= capture.raf.due
    /\ LET elapsed == capture.now - capture.animationStart
           currentTime == elapsed % capture.loopDurationMs
           c1 == CompositeFrame(capture, currentTime, elapsed)
           progress == 25 + Min((elapsed * 50) \div capture.loopDurationMs, 50)
           c2 == Emit(c1, "rendering", Min(progress, 75), FALSE)
       IN  capture' = IF elapsed < capture.loopDurationMs + TrailingBufferMs
                      THEN [c2 EXCEPT !.raf = [set |-> TRUE,
                                               due |-> capture.now + RafPeriodMs]]
                      ELSE EndLoop(c2)
    /\ UNCHANGED <<notRuns, seekWait, shared>>

\* one run of animate of exportProjectAsWebM (export/index.ts 159-175)
ProjectAnimate(c) ==
    LET frameCount == CaptureFrameCount(c)
        currentTime == (c.currentFrame * c.loopDurationMs) \div frameCount
        c1 == CompositeFrame(c, currentTime, c.now - c.animationStart)
    IN  IF c1.currentFrame < frameCount
        THEN [c1 EXCEPT !.raf = [set |-> TRUE, due |-> c.now + RafPeriodMs]]
        ELSE EndLoop(c1)

\* exportProjectAsWebM up to the await of exportWebM (export/index.ts 135-189)
ExportProjectAsWebMCall ==
    /\ capture.pc = "called"
    /\ capture.path = "project"
    /\ LET c1 == ProjectAnimate([capture EXCEPT !.animationStart = capture.now])
           c2 == exportWebM(c1)
       IN  capture' = [c2 EXCEPT !.pc = IF c2.promise = "rejected" THEN "rejected"
                                        ELSE "awaiting"]
    /\ UNCHANGED <<notRuns, seekWait, shared>>

ExportProjectAsWebMAnimate ==
    /\ capture.path = "project"
    /\ capture.raf.set
    /\ capture.now >= capture.raf.due
    /\ capture' = ProjectAnimate(capture)
    /\ UNCHANGED <<notRuns, seekWait, shared>>

\* mutant: stop() throws on a recorder that is no longer recording, and the
\* callback ends there
StopRecording_ThrowsWhenInactive(c) ==
    IF c.recorder # "recording"
    THEN [c EXCEPT !.timer = NoTimer, !.stoppedAt = c.now]
    ELSE [c EXCEPT !.timer = NoTimer, !.stoppedAt = c.now, !.stopEvent = TRUE,
                   !.recorder = "inactive", !.tracksStopped = TRUE]

\* mediaRecorder.stop(); stream.getTracks().forEach((track) => track.stop())
StopRecording(c) ==
    [c EXCEPT !.timer = NoTimer,
              !.stoppedAt = c.now,
              !.stopEvent = IF c.recorder = "recording" THEN TRUE ELSE @,
              !.recorder = "inactive",
              !.tracksStopped = TRUE]

\* the setTimeout callback of exportWebM (recorder.ts 98-103)
StopTimerFires ==
    /\ capture.timer.set
    /\ capture.now >= capture.timer.due
    /\ capture' = StopRecording(capture)
    /\ UNCHANGED <<notRuns, seekWait, shared>>

\* mediaRecorder.onstop (recorder.ts 84-87) and what awaits the promise
\* (export.ts 328-336, export/index.ts 189-190)
RecorderOnStop ==
    /\ capture.stopEvent
    /\ LET c1 == [capture EXCEPT !.stopEvent = FALSE]
       IN  capture' =
             IF capture.promise # "pending" THEN c1
             ELSE LET c2 == [c1 EXCEPT !.promise = "resolved"]
                  IN  IF capture.path = "service"
                      THEN [Emit(c2, "complete", 100, FALSE) EXCEPT
                               !.pc = "resolved", !.blob = TRUE]
                      ELSE [c2 EXCEPT !.pc = "resolved", !.blob = TRUE]
    /\ UNCHANGED <<notRuns, seekWait, shared>>

\* the recorder fails while recording: mediaRecorder.onerror (recorder.ts
\* 90-92) and what awaits the promise (export.ts 337-339 and 95-102,
\* export/index.ts 191-193)
RecorderOnError ==
    /\ capture.recorder = "recording"
    /\ capture.promise = "pending"
    /\ LET c1 == [capture EXCEPT !.recorder = "inactive", !.stopEvent = TRUE,
                                 !.promise = "rejected",
                                 !.error = "MediaRecorder error"]
       IN  capture' = IF capture.path = "service" THEN ExportFailed(c1)
                      ELSE [c1 EXCEPT !.pc = "rejected"]
    /\ UNCHANGED <<notRuns, seekWait, shared>>

\* no callback is due: the clock jumps to the next one
CaptureDue(c) == {t.due : t \in {x \in {c.timer, c.raf} : x.set}}

CaptureTimePasses ==
    /\ ~capture.stopEvent
    /\ capture.pc # "called"
    /\ CaptureDue(capture) # {}
    /\ \A due \in CaptureDue(capture) : due > capture.now
    /\ capture' = [capture EXCEPT !.now =
          CHOOSE due \in CaptureDue(capture) :
             \A other \in CaptureDue(capture) : due <= other]
    /\ UNCHANGED <<notRuns, seekWait, shared>>

CaptureLoopDurations == {100, 200}
CaptureFps == {10, 30}



(***************************************************************************)
(* Seek-and-wait on a video element: drawVideoAssetAsync (canvas/draw.ts), *)
(* seekVideoToTime of the frame extraction and seekVideoToTime of the      *)
(* video utilities (both part_000).  Positions are milliseconds.  Whether  *)
(* 'seeked' or 'error' ever arrives is the browser's choice.               *)
(***************************************************************************)
MaxSeekClockMs == 6000  \* how long the wait is watched
SeekStepMs == 1000      \* the clock's step while no timer is set
DrawSeekTimeoutMs == 1000
ExtractSeekTimeoutMs == 5000

SeekHelpers == {"drawVideoAssetAsync", "seekVideoToTime (frame extraction)",
                "seekVideoToTime (video utils)"}

Abs(x) == IF x < 0 THEN -x ELSE x

\* Math.abs(video.currentTime - targetTime) < tolerance, with the
\* tolerance 0.1 s, 1/60 s or 1/30 s of the helper
WithinTolerance(helper, currentMs, targetMs) ==
    CASE helper = "drawVideoAssetAsync" -> Abs(currentMs - targetMs) < 100
      [] helper = "seekVideoToTime (frame extraction)" ->
            Abs(currentMs - targetMs) * 60 < 1000
      [] OTHER -> Abs(currentMs - targetMs) * 30 < 1000

\* the timer the helper sets before it waits
SeekTimer(helper, now) ==
    CASE helper = "drawVideoAssetAsync" ->
            [set |-> TRUE, due |-> now + DrawSeekTimeoutMs]
      [] helper = "seekVideoToTime (frame extraction)" ->
            [set |-> TRUE, due |-> now + ExtractSeekTimeoutMs]
      [] OTHER -> NoTimer

IdleSeekWait ==
    [helper |-> "none", pc |-> "idle", currentTime |-> 0, target |-> 0,
     now |-> 0, timer |-> NoTimer, drawn |-> FALSE, error |-> ""]

\* the promise executor: resolve at once within the tolerance, else listen,
\* set the timer (if any) and assign video.currentTime
SeekCall ==
    /\ seekWait.pc = "called"
    /\ seekWait' =
          IF WithinTolerance(seekWait.helper, seekWait.currentTime, seekWait.target)
          THEN [seekWait EXCEPT !.pc = "resolved",
                                !.drawn = seekWait.helper = "drawVideoAssetAsync"]
          ELSE [seekWait EXCEPT !.pc = "waiting",
                                !.currentTime = seekWait.target,
                                !.timer = SeekTimer(seekWait.helper, seekWait.now)]
    /\ UNCHANGED <<notRuns, capture, shared>>

\* onSeeked
SeekedArrives ==
    /\ seekWait.pc = "waiting"
    /\ seekWait' = [seekWait EXCEPT
          !.pc = "resolved",
          !.drawn = seekWait.helper = "drawVideoAssetAsync",
          !.timer = IF seekWait.helper = "seekVideoToTime (frame extraction)"
                    THEN NoTimer ELSE @]
    /\ UNCHANGED <<notRuns, capture, shared>>

\* onError of the two seekVideoToTime helpers
SeekErrorArrives ==
    /\ seekWait.pc = "waiting"
    /\ seekWait.helper # "drawVideoAssetAsync"
    /\ seekWait' = [seekWait EXCEPT !.pc = "rejected", !.timer = NoTimer,
                                    !.error = "Video seek failed"]
    /\ UNCHANGED <<notRuns, capture, shared>>

\* the setTimeout callback: draw.ts 188-191, part_000 156-159
SeekTimeout ==
    /\ seekWait.timer.set
    /\ seekWait.now >= seekWait.timer.due
    /\ seekWait' =
          IF seekWait.pc # "waiting" THEN [seekWait EXCEPT !.timer = NoTimer]
          ELSE IF seekWait.helper = "drawVideoAssetAsync"
          THEN [seekWait EXCEPT !.timer = NoTimer, !.pc = "resolved"]
          ELSE [seekWait EXCEPT !.timer = NoTimer, !.pc = "rejected",
                                !.error = "Video seek timeout"]
    /\ UNCHANGED <<notRuns, capture, shared>>

SeekTimePasses ==
    /\ seekWait.pc \notin {"idle", "called"}
    /\ seekWait.now < MaxSeekClockMs
    /\ seekWait.timer.set => seekWait.timer.due > seekWait.now
    /\ seekWait.pc = "waiting" \/ seekWait.timer.set
    /\ seekWait' = [seekWait EXCEPT !.now =
          IF seekWait.timer.set THEN seekWait.timer.due ELSE @ + SeekStepMs]
    /\ UNCHANGED <<notRuns, capture, shared>>

SeekPositions == {0, 20, 50, 200, 1000}

(***************************************************************************)
(* One video asset sampled by the preview loop and by a capture export at  *)
(* the same time (CanvasStage.animate -> drawVideoAsset, and               *)
(* exportWebMVideo.animate -> drawVideoAssetAsync).  Both use the asset's  *)
(* one element, asset.videoEl; shared.position is its currentTime in ms.   *)
(* The animation frames of the preview run between the steps of the        *)
(* export, which is suspended while it waits for 'seeked'.                 *)
(***************************************************************************)
MaxSharedFrames == 2    \* frames the export samples

SharedTimes == {0, 500, 1000, 4500}

IdleShared ==
    [pc |-> "idle", position |-> 0, target |-> 0, drawnAt |-> 0,
     frames |-> 0, previewDraws |-> 0, previewSince |-> FALSE]

\* the preview renders a frame: drawVideoAsset assigns currentTime and draws
SharedPreviewDraw ==
    /\ shared.pc # "idle"
    /\ shared.previewDraws < MaxSharedFrames
    /\ \E currentTimeMs \in SharedTimes :
          shared' = [shared EXCEPT
             !.position = JsMod(currentTimeMs, AssetTable["vidA"].durationMs),
             !.previewDraws = @ + 1,
             !.previewSince = shared.pc = "seeking"]
    /\ UNCHANGED <<notRuns, capture, seekWait>>

\* the export samples a frame: drawVideoAssetAsync up to its wait
SharedExportSeek ==
    /\ shared.pc \in {"ready", "drawn", "skipped"}
    /\ shared.frames < MaxSharedFrames
    /\ \E currentTimeMs \in SharedTimes :
          LET target == JsMod(currentTimeMs, AssetTable["vidA"].durationMs)
          IN  shared' =
                 IF Abs(shared.position - target) < 100
                 THEN [shared EXCEPT !.pc = "drawn", !.target = target,
                                     !.drawnAt = shared.position,
                                     !.frames = @ + 1, !.previewSince = FALSE]
                 ELSE [shared EXCEPT !.pc = "seeking", !.target = target,
                                     !.position = target,
                                     !.frames = @ + 1, !.previewSince = FALSE]
    /\ UNCHANGED <<notRuns, capture, seekWait>>

\* 'seeked' fires: the export draws the element as it is now
SharedExportSeeked ==
    /\ shared.pc = "seeking"
    /\ shared' = [shared EXCEPT !.pc = "drawn", !.drawnAt = shared.position]
    /\ UNCHANGED <<notRuns, capture, seekWait>>

\* the 1000 ms fallback fires first: the export draws nothing for this frame
SharedExportTimeout ==
    /\ shared.pc = "seeking"
    /\ shared' = [shared EXCEPT !.pc = "skipped"]
    /\ UNCHANGED <<notRuns, capture, seekWait>>

(***************************************************************************)
(* The project store: assets, layers and undo (part_003), and the Delete   *)
(* and Ctrl+Z keys of the App (part_011).  generateId() gives an id that   *)
(* nothing in the project carries.  While the store is edited, call is the *)
(* store call made last: its name, its result and, for the calls that remove *)
(* or restore, the store it was made on.                                   *)
(* The undo stack holds copies of the session's first project and at most  *)
(* one other project, on top.                                              *)
(***************************************************************************)
MaxEditLayers == 2  \* most layers of the edited project
MaxUndoSteps == 1   \* how far into a full stack the session undoes

\* [...undoStack, projectCopy].slice(-20)
UndoLimit == 20

\* the '' that addLayer and duplicateLayer return when they add nothing, and
\* the result of a call that returns none
NoLayerId == 0

EditAssetIds == {"img", "gifB"}

\* the project a session starts with: one image asset, no layer
SessionProject == [EmptyProject EXCEPT !.assets = {"img"}]

addAsset(p, assetId) == [p EXCEPT !.assets = @ \cup {assetId}]

\* mutant: the asset goes, its layers stay
removeAsset_KeepsLayers(p, assetId) == [p EXCEPT !.assets = @ \ {assetId}]

removeAsset(p, assetId) ==
    LET Remaining(layer) == layer.assetId # assetId
    IN  [p EXCEPT !.assets = @ \ {assetId}, !.layers = SelectSeq(@, Remaining)]

\* mutant: the selection is left as it was
RemainingSelection_Kept(ids, remainingLayers) == ids

\* selectedLayerIds.filter(id => remainingLayers.some(layer => layer.id === id))
RemainingSelection(ids, remainingLayers) ==
    LET Remains(id) ==
            \E i \in 1..Len(remainingLayers) : remainingLayers[i].id = id
    IN  SelectSeq(ids, Remains)

\* what addLayer returns
addLayerResult(p, assetId) ==
    IF assetId \notin p.assets THEN NoLayerId ELSE NewLayerId(p)

\* layers.findIndex(layer => layer.id === layerId), counted from 1; 0 is
\* JavaScript's -1
FindIndex(layers, layerId) ==
    IF \E i \in 1..Len(layers) : layers[i].id = layerId
    THEN CHOOSE i \in 1..Len(layers) :
            /\ layers[i].id = layerId
            /\ \A j \in 1..(i - 1) : layers[j].id # layerId
    ELSE 0

\* new Map(layers.map(layer => [layer.id, layer])).get(id): of two layers
\* with one id the later is kept; 0 for undefined
MapIndex(layers, layerId) ==
    IF \E i \in 1..Len(layers) : layers[i].id = layerId
    THEN CHOOSE i \in 1..Len(layers) :
            /\ layers[i].id = layerId
            /\ \A j \in (i + 1)..Len(layers) : layers[j].id # layerId
    ELSE 0

\* layerIds.map(id => layerMap.get(id)!).filter(Boolean)
reorderLayers(p, layerIds) ==
    LET Known(id) == MapIndex(p.layers, id) # 0
        known == SelectSeq(layerIds, Known)
    IN  [p EXCEPT !.layers =
            [k \in 1..Len(known) |-> p.layers[MapIndex(p.layers, known[k])]]]

\* the layers with those at i and j exchanged
Swapped(layers, i, j) ==
    [k \in 1..Len(layers) |->
        IF k = i THEN layers[j] ELSE IF k = j THEN layers[i] ELSE layers[k]]

\* towards the front: the end of the array
moveLayerUp(p, layerId) ==
    LET currentIndex == FindIndex(p.layers, layerId)
    IN  IF currentIndex = 0 \/ currentIndex = Len(p.layers) THEN p
        ELSE [p EXCEPT !.layers = Swapped(@, currentIndex, currentIndex + 1)]

\* towards the back: the start of the array
moveLayerDown(p, layerId) ==
    LET currentIndex == FindIndex(p.layers, layerId)
    IN  IF currentIndex = 0 \/ currentIndex = 1 THEN p
        ELSE [p EXCEPT !.layers = Swapped(@, currentIndex, currentIndex - 1)]

\* what duplicateLayer returns
duplicateLayerResult(p, layerId) ==
    IF FindIndex(p.layers, layerId) = 0 THEN NoLayerId ELSE NewLayerId(p)

duplicateLayer(p, layerId) ==
    LET found == FindIndex(p.layers, layerId)
    IN  IF found = 0 THEN p
        ELSE [p EXCEPT !.layers =
                Append(@, [p.layers[found] EXCEPT !.id = NewLayerId(p)])]

\* the assets of the library
LibraryAssetIds == {"gifB"}

\* the copy of the library asset enters the asset table under the id
\* generateId() gave it, and addLayer makes it a layer
addLibraryAssetToProject(p, assetId, generatedId) ==
    IF assetId \notin LibraryAssetIds THEN p
    ELSE addLayer(addAsset(p, generatedId), generatedId)

\* the last n elements: array.slice(-n)
SliceLast(s, n) ==
    IF Len(s) <= n THEN s ELSE SubSeq(s, Len(s) - n + 1, Len(s))

\* mutant: the stack grows without limit
saveStateForUndo_NoLimit(stack, p) == Append(stack, p)

\* the stack after saveStateForUndo; the copy is equal to the project
saveStateForUndo(stack, p) == SliceLast(Append(stack, p), UndoLimit)

\* mutant: the oldest state is the one restored
undo_Oldest(st) ==
    IF Len(st.undoStack) = 0 THEN st
    ELSE [project |-> st.undoStack[1],
          undoStack |-> SubSeq(st.undoStack, 1, Len(st.undoStack) - 1),
          selectedLayerIds |-> <<>>]

\* undo, on the store [project, undoStack, selectedLayerIds]
undo(st) ==
    IF Len(st.undoStack) = 0 THEN st
    ELSE [project |-> st.undoStack[Len(st.undoStack)],
          undoStack |-> SubSeq(st.undoStack, 1, Len(st.undoStack) - 1),
          selectedLayerIds |-> <<>>]

\* what an edit of the store leaves alone
notEdit == <<sampleVars, decodeVars, exportVars, sourceVars, openVars, runVars, surface,
    videoTime, timeline, copiedLayers, timeText, ctx>>

StoreCall(op, result) == [op |-> op, result |-> result]

\* a call recorded with the store it was made on
StoreCallOn(op, arg, result) ==
    [op |-> op, arg |-> arg, result |-> result,
     before |-> [project |-> project, undoStack |-> undoStack,
                 selectedLayerIds |-> selectedLayerIds]]

\* the ids a caller may name: those of the layers and one of no layer
EditLayerIds == 1..(MaxEditLayers + 1)

StoreCreateNewProject ==
    /\ project' = EmptyProject
    /\ selectedLayerIds' = <<>>
    /\ call' = StoreCall("createNewProject", NoLayerId)
    /\ UNCHANGED <<undoStack, notEdit>>

StoreAddAsset ==
    \E assetId \in EditAssetIds :
        /\ project' = addAsset(project, assetId)
        /\ call' = StoreCall("addAsset", NoLayerId)
        /\ UNCHANGED <<selectedLayerIds, undoStack, notEdit>>

StoreRemoveAsset ==
    \E assetId \in EditAssetIds :
        /\ project' = removeAsset(project, assetId)
        /\ selectedLayerIds' = RemainingSelection(selectedLayerIds, project'.layers)
        /\ call' = StoreCallOn("removeAsset", assetId, NoLayerId)
        /\ UNCHANGED <<undoStack, notEdit>>

\* for an asset of the table or for an id the table does not hold
StoreAddLayer ==
    \E assetId \in EditAssetIds :
        /\ project' = addLayer(project, assetId)
        /\ Len(project'.layers) <= MaxEditLayers
        /\ call' = StoreCallOn("addLayer", assetId, addLayerResult(project, assetId))
        /\ UNCHANGED <<selectedLayerIds, undoStack, notEdit>>

StoreRemoveLayer ==
    \E layerId \in EditLayerIds :
        LET Others(id) == id # layerId
        IN  /\ project' = removeLayer(project, layerId)
            /\ selectedLayerIds' = SelectSeq(selectedLayerIds, Others)
            /\ call' = StoreCall("removeLayer", NoLayerId)
            /\ UNCHANGED <<undoStack, notEdit>>

StoreUpdateLayer ==
    \E layerId \in EditLayerIds, visible \in BOOLEAN :
        /\ project' = updateLayer(project, layerId, [visible |-> visible])
        /\ call' = StoreCall("updateLayer", NoLayerId)
        /\ UNCHANGED <<selectedLayerIds, undoStack, notEdit>>

StoreUpdateLayerTransform ==
    \E layerId \in EditLayerIds :
        /\ project' = updateLayerTransform(project, layerId, [x |-> 20, y |-> 20])
        /\ call' = StoreCall("updateLayerTransform", NoLayerId)
        /\ UNCHANGED <<selectedLayerIds, undoStack, notEdit>>

\* any list of ids: one may be missing, unknown or given twice
StoreReorderLayers ==
    \E n \in 0..MaxEditLayers : \E layerIds \in [1..n -> EditLayerIds] :
        /\ project' = reorderLayers(project, layerIds)
        /\ call' = StoreCall("reorderLayers", NoLayerId)
        /\ UNCHANGED <<selectedLayerIds, undoStack, notEdit>>

StoreMoveLayerUp ==
    \E layerId \in EditLayerIds :
        /\ project' = moveLayerUp(project, layerId)
        /\ call' = StoreCall("moveLayerUp", NoLayerId)
        /\ UNCHANGED <<selectedLayerIds, undoStack, notEdit>>

StoreMoveLayerDown ==
    \E layerId \in EditLayerIds :
        /\ project' = moveLayerDown(project, layerId)
        /\ call' = StoreCall("moveLayerDown", NoLayerId)
        /\ UNCHANGED <<selectedLayerIds, undoStack, notEdit>>

StoreDuplicateLayer ==
    \E layerId \in EditLayerIds :
        /\ project' = duplicateLayer(project, layerId)
        /\ Len(project'.layers) <= MaxEditLayers
        /\ call' = StoreCall("duplicateLayer",
                             duplicateLayerResult(project, layerId))
        /\ UNCHANGED <<selectedLayerIds, undoStack, notEdit>>

\* for an asset of the library or for an id the library does not hold
StoreAddLibraryAssetToProject ==
    \E assetId \in EditAssetIds, generatedId \in EditAssetIds \ project.assets :
        /\ project' = addLibraryAssetToProject(project, assetId, generatedId)
        /\ Len(project'.layers) <= MaxEditLayers
        /\ call' = StoreCall("addLibraryAssetToProject",
                             IF assetId \in LibraryAssetIds
                             THEN NewLayerId(project) ELSE NoLayerId)
        /\ UNCHANGED <<selectedLayerIds, undoStack, notEdit>>

StoreSelectLayer ==
    \E layerId \in 1..MaxEditLayers :
        /\ selectedLayerIds' = <<layerId>>
        /\ call' = StoreCall("selectLayer", NoLayerId)
        /\ UNCHANGED <<project, undoStack, notEdit>>

\* the stack may take a project other than the session's first
CanSave ==
    /\ project # SessionProject
    /\ \A i \in 1..Len(undoStack) : undoStack[i] = SessionProject

StoreSaveStateForUndo ==
    /\ CanSave
    /\ undoStack' = saveStateForUndo(undoStack, project)
    /\ call' = StoreCallOn("saveStateForUndo", "", NoLayerId)
    /\ UNCHANGED <<project, selectedLayerIds, notEdit>>

\* store.undo(), which is also all that Ctrl+Z does
StoreUndo ==
    LET st == undo([project |-> project, undoStack |-> undoStack,
                    selectedLayerIds |-> selectedLayerIds])
    IN  /\ \/ Len(undoStack) <= MaxUndoSteps
           \/ Len(undoStack) > UndoLimit - MaxUndoSteps
        /\ project' = st.project
        /\ undoStack' = st.undoStack
        /\ selectedLayerIds' = st.selectedLayerIds
        /\ call' = StoreCallOn("undo", "", NoLayerId)
        /\ UNCHANGED notEdit

\* removeLayer for each of ids from k on
RECURSIVE RemoveEach(_, _, _)
RemoveEach(st, ids, k) ==
    IF k > Len(ids) THEN st
    ELSE LET Others(id) == id # ids[k]
         IN  RemoveEach([project |-> removeLayer(st.project, ids[k]),
                         selectedLayerIds |-> SelectSeq(st.selectedLayerIds, Others)],
                        ids, k + 1)

\* the Delete key: the state is saved, then each selected layer is removed
KeyDelete ==
    /\ Len(selectedLayerIds) > 0
    /\ CanSave
    /\ LET st == RemoveEach([project |-> project,
                             selectedLayerIds |-> selectedLayerIds],
                            selectedLayerIds, 1)
       IN  /\ project' = st.project
           /\ selectedLayerIds' = st.selectedLayerIds
    /\ undoStack' = saveStateForUndo(undoStack, project)
    /\ call' = StoreCallOn("Delete", "", NoLayerId)
    /\ UNCHANGED notEdit

(***************************************************************************)
(* formatTime and parseTime (utils/time, part_004).  A string is the       *)
(* sequence of its characters.  timeText is one text: the time it was      *)
(* formatted from, if any, the text, and what parseTime made of it.        *)
(***************************************************************************)
DigitChars == <<"0", "1", "2", "3", "4", "5", "6", "7", "8", "9">>

IsDigit(c) == \E d \in 1..10 : DigitChars[d] = c

DigitValue(c) == (CHOOSE d \in 1..10 : DigitChars[d] = c) - 1

\* n.toString() of an integer n >= 0
RECURSIVE NumberToString(_)
NumberToString(n) ==
    IF n < 10 THEN <<DigitChars[n + 1]>>
    ELSE Append(NumberToString(n \div 10), DigitChars[(n % 10) + 1])

\* parseInt of a string of digits
RECURSIVE ParseInt(_)
ParseInt(s) ==
    IF Len(s) = 0 THEN 0
    ELSE ParseInt(SubSeq(s, 1, Len(s) - 1)) * 10 + DigitValue(s[Len(s)])

\* s.padStart(2, '0')
PadStart2(s) == IF Len(s) < 2 THEN <<"0">> \o s ELSE s

formatTime(ms) ==
    LET seconds == ms \div 1000
        minutes == seconds \div 60
        remainingSeconds == seconds % 60
        remainingMs == ms % 1000
        tenths == NumberToString(remainingMs \div 100)
    IN  IF minutes > 0
        THEN NumberToString(minutes) \o <<":">>
                 \o PadStart2(NumberToString(remainingSeconds)) \o <<".">> \o tenths
        ELSE NumberToString(remainingSeconds) \o <<".">> \o tenths \o <<"s">>

\* the number of digits s starts with
DigitPrefix(s) ==
    CHOOSE k \in 0..Len(s) :
        /\ \A i \in 1..k : IsDigit(s[i])
        /\ k < Len(s) => ~IsDigit(s[k + 1])

\* the match of /^(?:(\d+):)?(\d+)\.?(\d)?s?$/ : groups 1 to 3, "" for a
\* group that took no part, or no match.  \d+ takes all the digits it
\* meets; giving one back never turns a failure into a match.
TimeRegexMatch(timeStr) ==
    LET k1 == DigitPrefix(timeStr)
        hasMinutes == k1 > 0 /\ k1 < Len(timeStr) /\ timeStr[k1 + 1] = ":"
        body == IF hasMinutes THEN SubSeq(timeStr, k1 + 2, Len(timeStr)) ELSE timeStr
        k2 == DigitPrefix(body)
        rest == SubSeq(body, k2 + 1, Len(body))
        noS == IF Len(rest) > 0 /\ rest[Len(rest)] = "s"
               THEN SubSeq(rest, 1, Len(rest) - 1) ELSE rest
        tail == \/ noS = <<>>
                \/ noS = <<".">>
                \/ Len(noS) = 2 /\ noS[1] = "." /\ IsDigit(noS[2])
    IN  IF k2 > 0 /\ tail
        THEN [matched |-> TRUE,
              g1 |-> IF hasMinutes THEN SubSeq(timeStr, 1, k1) ELSE <<>>,
              g2 |-> SubSeq(body, 1, k2),
              g3 |-> IF Len(noS) = 2 THEN <<noS[2]>> ELSE <<>>]
        ELSE [matched |-> FALSE, g1 |-> <<>>, g2 |-> <<>>, g3 |-> <<>>]

\* mutant: the tenths are read as seconds
parseTime_TenthsAsSeconds(timeStr) ==
    LET match == TimeRegexMatch(timeStr)
    IN  IF ~match.matched THEN 0
        ELSE ParseInt(match.g1) * 60 * 1000 + ParseInt(match.g2) * 1000
                 + ParseInt(match.g3) * 1000

\* parseInt(match[n] || '0') is ParseInt, which gives 0 for ""
parseTime(timeStr) ==
    LET match == TimeRegexMatch(timeStr)
    IN  IF ~match.matched THEN 0
        ELSE ParseInt(match.g1) * 60 * 1000 + ParseInt(match.g2) * 1000
                 + ParseInt(match.g3) * 100

\* formatted tells whether the text is formatTime's, of the time ms
IdleTimeText ==
    [pc |-> "idle", formatted |-> FALSE, ms |-> 0, text |-> <<>>, parsed |-> 0]

\* the whole seconds and the milliseconds within the second of the times
\* formatted
FormatSeconds == {0, 1, 9, 59, 60, 61, 69, 90, 599, 600, 3599, 3600, 6000}
FormatRemainders == {0, 1, 99, 100, 500, 549, 900, 999}

\* texts that formatTime does not make
OtherTexts ==
    {<<"i", "n", "v", "a", "l", "i", "d">>, <<>>, <<"5">>, <<"9", "0">>,
     <<"1", ".", "5">>, <<"1", ".", "5", "5", "s">>, <<"1", ":", "5">>,
     <<"1", ":", "3", "0", ".", "5", "s">>, <<".", "5", "s">>, <<"s">>,
     <<"1", ":", "2", ":", "3">>, <<":", "3", "0">>, <<"1", "s", "s">>,
     <<"-", "1", ".", "0", "s">>, <<"1", ",", "5", "s">>}

notTimeText == <<sampleVars, decodeVars, compositeVars, timelineVars, exportVars, storeVars,
    sourceVars, openVars, runVars, undoStack, ctx>>

FormatTime ==
    /\ timeText.pc = "time"
    /\ timeText' = [timeText EXCEPT !.pc = "text", !.text = formatTime(timeText.ms)]
    /\ UNCHANGED notTimeText

ParseTime ==
    /\ timeText.pc = "text"
    /\ timeText' = [timeText EXCEPT !.pc = "parsed", !.parsed = parseTime(timeText.text)]
    /\ UNCHANGED notTimeText

(***************************************************************************)
(* drawLayer and drawLayerAsync on a 2D context (canvas/draw.ts 23-193).   *)
(* The drawing state of the context is its transform, its global alpha     *)
(* (hundredths) and its compositing mode; the transform is the list of the *)
(* operations applied to it.  save pushes the drawing state, restore pops  *)
(* it.  ctx is one call: the layer and asset it was given, the context,    *)
(* and for a video drawn by drawLayerAsync the 'seeked' listener, the      *)
(* fallback timer and the promise of drawVideoAssetAsync.  draws counts    *)
(* the drawImage calls that drew, lateDraws those made after the promise   *)
(* resolved or the call returned.                                          *)
(***************************************************************************)
IdentityState ==
    [transform |-> <<>>, globalAlpha |-> 100, globalCompositeOperation |-> "source-over"]

\* the drawing states a caller may hold when it draws a layer
CallerStates ==
    {IdentityState,
     [transform |-> <<[op |-> "scale", a |-> 200, b |-> 200]>>, globalAlpha |-> 50,
      globalCompositeOperation |-> "multiply"]}

\* the layers drawn: visible or hidden, opacity in hundredths
ContextLayers ==
    {[visible |-> v, transform |-> [t EXCEPT !.opacity = o]] :
        v \in BOOLEAN, o \in {-20, 0, 50, 100},
        t \in {DEFAULT_LAYER_TRANSFORM,
               [DEFAULT_LAYER_TRANSFORM EXCEPT !.x = 920, !.y = 500,
                                               !.rotationDeg = 90, !.scaleX = 50]}}

IdleCtx ==
    [pc |-> "idle", fn |-> "none", layer |-> [visible |-> FALSE,
                                              transform |-> DEFAULT_LAYER_TRANSFORM],
     kind |-> "image", throws |-> FALSE, atTarget |-> FALSE,
     state |-> IdentityState, stack |-> <<>>,
     before |-> [state |-> IdentityState, stack |-> <<>>],
     path |-> "none", listener |-> FALSE, timer |-> FALSE, seekPending |-> FALSE,
     resolved |-> FALSE, draws |-> 0, lateDraws |-> 0]

save(c) == [c EXCEPT !.stack = Append(@, c.state)]

\* mutant: the alpha and the compositing mode are not brought back
restore_TransformOnly(c) ==
    IF Len(c.stack) = 0 THEN c
    ELSE [c EXCEPT !.state.transform = c.stack[Len(c.stack)].transform,
                   !.stack = SubSeq(@, 1, Len(@) - 1)]

\* with nothing saved, restore does nothing
restore(c) ==
    IF Len(c.stack) = 0 THEN c
    ELSE [c EXCEPT !.state = c.stack[Len(c.stack)],
                   !.stack = SubSeq(@, 1, Len(@) - 1)]

applyTransform(c, transform) ==
    LET translated == Append(c.state.transform,
                             [op |-> "translate", a |-> transform.x, b |-> transform.y])
        rotated == IF transform.rotationDeg # 0
                   THEN Append(translated, [op |-> "rotate", a |-> transform.rotationDeg,
                                            b |-> 0])
                   ELSE translated
        scaled == IF transform.scaleX # 100 \/ transform.scaleY # 100
                  THEN Append(rotated, [op |-> "scale", a |-> transform.scaleX,
                                        b |-> transform.scaleY])
                  ELSE rotated
    IN  [c EXCEPT !.state.transform = scaled]

\* ctx.drawImage that does not throw
DrawsImage(c) ==
    [c EXCEPT !.draws = @ + 1,
              !.lateDraws = IF c.resolved \/ c.pc = "returned" THEN @ + 1 ELSE @]

\* lines 30-43 and 75-88: false for a layer that is skipped, else the
\* context saved and set up for the layer
SetUpLayer(c) ==
    LET saved == save(c)
        transformed == applyTransform(saved, c.layer.transform)
    IN  [transformed EXCEPT !.state.globalAlpha = c.layer.transform.opacity,
                            !.state.globalCompositeOperation = "source-over"]

Skipped(c) == ~c.layer.visible \/ c.layer.transform.opacity <= 0

\* the try block of drawLayer: the asset is drawn, or drawImage throws and
\* the catch block logs it
TryDraw(c) ==
    IF c.throws THEN [c EXCEPT !.path = "failed"]
    ELSE [DrawsImage(c) EXCEPT !.path = "drawn"]

\* the end of both functions: ctx.restore() and the return
RestoreAndReturn(c) == [restore(c) EXCEPT !.pc = "returned"]

notCtx == <<sampleVars, decodeVars, compositeVars, timelineVars, exportVars, storeVars,
    sourceVars, openVars, runVars, undoStack, timeText>>

\* drawLayer
CtxDrawLayer ==
    /\ ctx.pc = "called"
    /\ ctx.fn = "drawLayer"
    /\ ctx' = IF Skipped(ctx) THEN [ctx EXCEPT !.pc = "returned", !.path = "skipped"]
              ELSE RestoreAndReturn(TryDraw(SetUpLayer(ctx)))
    /\ UNCHANGED notCtx

\* resolve() of drawVideoAssetAsync: the first call lets drawLayerAsync go
\* on to its ctx.restore(); a later call does nothing
Resolve(c) ==
    IF c.resolved THEN c
    ELSE RestoreAndReturn([c EXCEPT !.resolved = TRUE])

\* onSeeked: the listener goes, the frame is drawn unless drawImage throws,
\* the promise resolves
onSeeked(c) ==
    LET unlistened == [c EXCEPT !.listener = FALSE]
        drawn == IF c.throws
                 THEN [unlistened EXCEPT !.path = IF c.resolved THEN @ ELSE "failed"]
                 ELSE [DrawsImage(unlistened) EXCEPT
                          !.path = IF c.resolved THEN @ ELSE "drawn"]
    IN  Resolve(drawn)

\* mutant: the fallback leaves the listener in place
SeekFallback_KeepsListener(c) ==
    Resolve([c EXCEPT !.timer = FALSE,
                      !.path = IF c.resolved THEN @ ELSE "timed out"])

\* the callback of the fallback timer: lines 188-191
SeekFallback(c) ==
    Resolve([c EXCEPT !.timer = FALSE, !.listener = FALSE,
                      !.path = IF c.resolved THEN @ ELSE "timed out"])

\* drawLayerAsync up to its return or to the await of a seek
CtxDrawLayerAsync ==
    /\ ctx.pc = "called"
    /\ ctx.fn = "drawLayerAsync"
    /\ ctx' = IF Skipped(ctx) THEN [ctx EXCEPT !.pc = "returned", !.path = "skipped"]
              ELSE IF ctx.kind # "video" THEN RestoreAndReturn(TryDraw(SetUpLayer(ctx)))
              ELSE IF ctx.atTarget THEN onSeeked(SetUpLayer(ctx))
              ELSE [SetUpLayer(ctx) EXCEPT !.pc = "awaiting", !.listener = TRUE,
                                           !.seekPending = TRUE, !.timer = TRUE]
    /\ UNCHANGED notCtx

\* the element fires 'seeked', before or after the fallback
CtxSeekedEvent ==
    /\ ctx.seekPending
    /\ ctx' = IF ctx.listener THEN onSeeked([ctx EXCEPT !.seekPending = FALSE])
              ELSE [ctx EXCEPT !.seekPending = FALSE]
    /\ UNCHANGED notCtx

\* 1000 ms after the seek was asked for, whether or not 'seeked' has fired
CtxSeekFallback ==
    /\ ctx.timer
    /\ ctx' = SeekFallback(ctx)
    /\ UNCHANGED notCtx

(***************************************************************************)
(* Specifications.  Each starts the other parts of the program idle.       *)
(***************************************************************************)
SampleIdle ==
    /\ gifAsset = [frames |-> <<>>, totalDurationMs |-> 0]
    /\ sample = NoSample

DecodeIdle ==
    /\ gifDec = IdleGifDec
    /\ webmDec = IdleWebMDec

CompositeIdle ==
    /\ project = EmptyProject
    /\ surface = BlankCanvas
    /\ videoTime = 0
    /\ broken = {}

TimelineIdle ==
    /\ timeline = DEFAULT_TIMELINE_STATE
    /\ call = NoCall

ExportIdle ==
    /\ gifOptions = [fps |-> DEFAULT_COMPOSITION_SETTINGS.fps, loopDurationMs |-> 0]
    /\ gifRuns = [r \in {1, 2} |-> IdleGifRun]
    /\ clock = 0

StoreIdle ==
    /\ selectedLayerIds = <<>>
    /\ copiedLayers = <<>>

OpenIdle == videoOpen = IdleVideoOpen

RunsIdle ==
    /\ capture = IdleCapture
    /\ seekWait = IdleSeekWait
    /\ shared = IdleShared

RestIdle ==
    /\ undoStack = <<>>
    /\ timeText = IdleTimeText
    /\ ctx = IdleCtx

\* SpecSample: one frame-sequence asset, sampled at arbitrary times by each
\* of the three samplers.
InitSample ==
    /\ \E fr \in FrameLists :
          gifAsset = [frames |-> fr, totalDurationMs |-> SumSeq(fr)]
    /\ sample = NoSample
    /\ DecodeIdle
    /\ CompositeIdle
    /\ TimelineIdle
    /\ StoreIdle
    /\ OpenIdle
    /\ RunsIdle
    /\ RestIdle
    /\ ExportIdle

NextSample ==
    \/ SampleGetFrameAtTime
    \/ SampleGetFrameIndexAtTime
    \/ SampleDrawGifAsset

SpecSample == InitSample /\ [][NextSample]_vars

\* SpecSamplers: the same asset, sampled by the three samplers and by the
\* time utility.
InitSamplers == InitSample

NextSamplers ==
    \/ SampleGetFrameAtTime
    \/ SampleGetFrameIndexAtTime
    \/ SampleDrawGifAsset
    \/ SampleTimeUtility

SpecSamplers == InitSamplers /\ [][NextSamplers]_vars

\* SpecDecode: one GIF file is decoded, or one WebM file is turned into
\* frames, or one WebM file is opened as a video asset.
InitDecode ==
    /\ SampleIdle
    /\ CompositeIdle
    /\ TimelineIdle
    /\ StoreIdle
    /\ RunsIdle
    /\ RestIdle
    /\ ExportIdle
    /\ \/ /\ \E src \in GifSources :
                gifDec = [IdleGifDec EXCEPT !.pc = "parse", !.src = src]
          /\ webmDec = IdleWebMDec
          /\ OpenIdle
       \/ /\ gifDec = IdleGifDec
          /\ \E in \in WebMInputs :
                webmDec = [IdleWebMDec EXCEPT !.pc = "loading",
                                              !.duration = in.duration,
                                              !.options = in.options]
          /\ OpenIdle
       \/ /\ gifDec = IdleGifDec
          /\ webmDec = IdleWebMDec
          /\ \E supported \in BOOLEAN, duration \in WebMDurations :
                videoOpen = [IdleVideoOpen EXCEPT !.pc = "loading",
                                                  !.supported = supported,
                                                  !.duration = duration]

NextDecode ==
    \/ DecodeGifStart
    \/ DecodeGifLoop
    \/ DecodeGifReturn
    \/ WebMLoadedMetadata
    \/ WebMLoadError
    \/ WebMExtractFrame
    \/ WebMFinish
    \/ CreateVideoAssetUnsupported
    \/ CreateVideoAssetLoadedMetadata
    \/ CreateVideoAssetError

SpecDecode == InitDecode /\ [][NextDecode]_vars

\* SpecComposite: a loaded project is composited, pass after pass.
InitComposite ==
    /\ SampleIdle
    /\ DecodeIdle
    /\ TimelineIdle
    /\ StoreIdle
    /\ OpenIdle
    /\ RunsIdle
    /\ RestIdle
    /\ ExportIdle
    /\ project \in CompositeProjects
    /\ surface = BlankCanvas
    /\ videoTime = 0
    /\ broken = {}

NextComposite ==
    \/ PreviewRender
    \/ RenderProjectToCanvas
    \/ ExportStaticImage
    \/ ExportGifPass
    \/ CapturePass
    \/ CapturePassAsync

SpecComposite == InitComposite /\ [][NextComposite]_vars

\* SpecLoop: the loop duration of a loaded project is resolved by the
\* preview clock and by the export service.
InitLoop ==
    /\ SampleIdle
    /\ DecodeIdle
    /\ TimelineIdle
    /\ StoreIdle
    /\ OpenIdle
    /\ RunsIdle
    /\ RestIdle
    /\ ExportIdle
    /\ project \in LoopProjects
    /\ surface = BlankCanvas
    /\ videoTime = 0
    /\ broken = {}

NextLoop ==
    \/ AnimateFrame
    \/ CalculateLoopDuration

SpecLoop == InitLoop /\ [][NextLoop]_vars

\* SpecTimeline: playback of a project is controlled through the store while
\* the preview clock runs.
InitTimeline ==
    /\ SampleIdle
    /\ DecodeIdle
    /\ TimelineIdle
    /\ StoreIdle
    /\ OpenIdle
    /\ RunsIdle
    /\ RestIdle
    /\ ExportIdle
    /\ project \in {EmptyProject, OneGifProject}
    /\ surface = BlankCanvas
    /\ videoTime = 0
    /\ broken = {}

NextTimeline ==
    \/ SetCurrentTime
    \/ Play
    \/ Pause
    \/ Stop
    \/ SetSpeed
    \/ AnimateFrame

SpecTimeline == InitTimeline /\ [][NextTimeline]_vars

\* SpecExportGif: exportGif is called twice with the same layers, assets and
\* options while the wall clock runs on.
InitExportGif ==
    /\ SampleIdle
    /\ DecodeIdle
    /\ TimelineIdle
    /\ StoreIdle
    /\ OpenIdle
    /\ RunsIdle
    /\ RestIdle
    /\ project \in {EmptyProject, OneGifProject}
    /\ surface = BlankCanvas
    /\ videoTime = 0
    /\ broken = {}
    /\ gifOptions \in GifExportOptions
    /\ gifRuns = [r \in {1, 2} |-> IdleGifRun]
    /\ clock = 0

NextExportGif ==
    \E r \in {1, 2} :
       \/ ExportGifStart(r)
       \/ ExportGifFrame(r)
       \/ ExportGifFinish(r)

SpecExportGif == InitExportGif /\ [][NextExportGif]_vars

\* SpecStore: one project whose layers are added, removed, selected, copied,
\* pasted and transformed through the store, the Inspector and the stages.
InitStore ==
    /\ project = StoreProject
    /\ surface = BlankCanvas
    /\ videoTime = 0
    /\ broken = {}
    /\ StoreIdle
    /\ OpenIdle
    /\ RunsIdle
    /\ RestIdle
    /\ SampleIdle
    /\ DecodeIdle
    /\ TimelineIdle
    /\ ExportIdle

NextStore ==
    \/ AddLayer
    \/ RemoveLayer
    \/ SelectLayer
    \/ CopyLayers
    \/ PasteLayers
    \/ UpdateLayerTransform
    \/ InspectorX
    \/ InspectorY
    \/ InspectorScaleX
    \/ InspectorScaleY
    \/ InspectorRotation
    \/ InspectorOpacity
    \/ HandleMouseMove
    \/ HandlePointerMove

SpecStore == InitStore /\ [][NextStore]_vars

\* SpecFailing: a project some of whose assets have a source that drawImage
\* refuses is composited by each pass.
InitFailing ==
    /\ project \in FailingProjects
    /\ broken \in (SUBSET project.assets) \ {{}}
    /\ surface = BlankCanvas
    /\ videoTime = 0
    /\ StoreIdle
    /\ OpenIdle
    /\ RunsIdle
    /\ RestIdle
    /\ SampleIdle
    /\ DecodeIdle
    /\ TimelineIdle
    /\ ExportIdle

NextFailing ==
    \/ PreviewRender
    \/ RenderProjectToCanvas
    \/ ExportStaticImage
    \/ ExportGifPass
    \/ CapturePass
    \/ CapturePassAsync

SpecFailing == InitFailing /\ [][NextFailing]_vars

\* SpecCapture: one capture export, through ExportService.export or through
\* exportProjectAsWebM.
InitCapture ==
    /\ SampleIdle
    /\ DecodeIdle
    /\ CompositeIdle
    /\ TimelineIdle
    /\ StoreIdle
    /\ OpenIdle
    /\ RestIdle
    /\ ExportIdle
    /\ seekWait = IdleSeekWait
    /\ shared = IdleShared
    /\ \E path \in {"service", "project"}, supported \in SupportSets,
          transparent \in BOOLEAN, loopDurationMs \in CaptureLoopDurations,
          fps \in CaptureFps :
          capture = [IdleCapture EXCEPT !.pc = "called", !.path = path,
                                        !.supported = supported,
                                        !.transparent = transparent,
                                        !.loopDurationMs = loopDurationMs,
                                        !.fps = fps]

NextCapture ==
    \/ ExportWebMVideoCall
    \/ ExportWebMVideoAnimate
    \/ ExportProjectAsWebMCall
    \/ ExportProjectAsWebMAnimate
    \/ StopTimerFires
    \/ RecorderOnStop
    \/ RecorderOnError
    \/ CaptureTimePasses

SpecCapture == InitCapture /\ [][NextCapture]_vars

\* the event loop runs every callback that is due
SpecCaptureLive == SpecCapture /\ WF_vars(NextCapture)

\* SpecSeek: one seek-and-wait by one of the three helpers.
InitSeek ==
    /\ SampleIdle
    /\ DecodeIdle
    /\ CompositeIdle
    /\ TimelineIdle
    /\ StoreIdle
    /\ OpenIdle
    /\ RestIdle
    /\ ExportIdle
    /\ capture = IdleCapture
    /\ shared = IdleShared
    /\ \E helper \in SeekHelpers, currentTime \in SeekPositions,
          target \in SeekPositions :
          seekWait = [IdleSeekWait EXCEPT !.pc = "called", !.helper = helper,
                                         !.currentTime = currentTime,
                                         !.target = target]

NextSeek ==
    \/ SeekCall
    \/ SeekedArrives
    \/ SeekErrorArrives
    \/ SeekTimeout
    \/ SeekTimePasses

SpecSeek == InitSeek /\ [][NextSeek]_vars

\* timers fire and time passes; 'seeked' and 'error' need not arrive
SpecSeekLive == SpecSeek /\ WF_vars(SeekTimeout) /\ WF_vars(SeekTimePasses)

\* SpecShared: the preview plays while a capture export samples the same
\* video asset.
InitShared ==
    /\ SampleIdle
    /\ DecodeIdle
    /\ CompositeIdle
    /\ TimelineIdle
    /\ StoreIdle
    /\ OpenIdle
    /\ RestIdle
    /\ ExportIdle
    /\ capture = IdleCapture
    /\ seekWait = IdleSeekWait
    /\ \E position \in SharedTimes :
          shared = [IdleShared EXCEPT !.pc = "ready",
                       !.position = JsMod(position, AssetTable["vidA"].durationMs)]

NextShared ==
    \/ SharedPreviewDraw
    \/ SharedExportSeek
    \/ SharedExportSeeked
    \/ SharedExportTimeout

SpecShared == InitShared /\ [][NextShared]_vars

\* SpecBackground: a project with some background is composited, pass
\* after pass, on the surface the pass before left.
InitBackground ==
    /\ SampleIdle
    /\ DecodeIdle
    /\ TimelineIdle
    /\ StoreIdle
    /\ OpenIdle
    /\ RunsIdle
    /\ RestIdle
    /\ ExportIdle
    /\ project \in BackgroundProjects
    /\ surface = BlankCanvas
    /\ videoTime = 0
    /\ broken = {}

NextBackground ==
    \/ PreviewRender
    \/ RenderProjectToCanvas
    \/ ExportStaticImage
    \/ ExportGifPass
    \/ CapturePass
    \/ CapturePassAsync

SpecBackground == InitBackground /\ [][NextBackground]_vars

\* SpecEdit: a new project is edited through the store: assets and layers
\* come and go, layers are reordered, states are saved and restored.
InitEdit ==
    /\ project = EmptyProject
    /\ surface = BlankCanvas
    /\ videoTime = 0
    /\ broken = {}
    /\ StoreIdle
    /\ undoStack = <<>>
    /\ timeText = IdleTimeText
    /\ ctx = IdleCtx
    /\ OpenIdle
    /\ RunsIdle
    /\ SampleIdle
    /\ DecodeIdle
    /\ TimelineIdle
    /\ ExportIdle

NextEdit ==
    \/ StoreCreateNewProject
    \/ StoreAddAsset
    \/ StoreRemoveAsset
    \/ StoreAddLayer
    \/ StoreRemoveLayer
    \/ StoreDuplicateLayer
    \/ StoreUpdateLayerTransform
    \/ StoreReorderLayers
    \/ StoreMoveLayerUp
    \/ StoreMoveLayerDown
    \/ StoreAddLibraryAssetToProject
    \/ StoreSelectLayer
    \/ StoreSaveStateForUndo
    \/ StoreUndo

SpecEdit == InitEdit /\ [][NextEdit]_vars

\* SpecUndo: the layers of a project are edited, states are saved and
\* restored; the session starts with an empty undo stack or with a full one.
InitUndo ==
    /\ project = SessionProject
    /\ surface = BlankCanvas
    /\ videoTime = 0
    /\ broken = {}
    /\ StoreIdle
    /\ undoStack \in {<<>>, [i \in 1..UndoLimit |-> SessionProject]}
    /\ timeText = IdleTimeText
    /\ ctx = IdleCtx
    /\ OpenIdle
    /\ RunsIdle
    /\ SampleIdle
    /\ DecodeIdle
    /\ TimelineIdle
    /\ ExportIdle

NextUndo ==
    \/ StoreAddLayer
    \/ StoreRemoveLayer
    \/ StoreUpdateLayer
    \/ StoreUpdateLayerTransform
    \/ StoreReorderLayers
    \/ StoreMoveLayerUp
    \/ StoreMoveLayerDown
    \/ StoreSelectLayer
    \/ StoreSaveStateForUndo
    \/ StoreUndo
    \/ KeyDelete

SpecUndo == InitUndo /\ [][NextUndo]_vars

\* SpecTimeText: a time is formatted and the text is parsed, or a text from
\* elsewhere is parsed.
InitTimeText ==
    /\ \/ \E s \in FormatSeconds, r \in FormatRemainders :
             timeText = [IdleTimeText EXCEPT !.pc = "time", !.formatted = TRUE,
                                             !.ms = s * 1000 + r]
       \/ \E text \in OtherTexts :
             timeText = [IdleTimeText EXCEPT !.pc = "text", !.text = text]
    /\ undoStack = <<>>
    /\ ctx = IdleCtx
    /\ SampleIdle
    /\ DecodeIdle
    /\ CompositeIdle
    /\ TimelineIdle
    /\ StoreIdle
    /\ OpenIdle
    /\ RunsIdle
    /\ ExportIdle

NextTimeText ==
    \/ FormatTime
    \/ ParseTime

SpecTimeText == InitTimeText /\ [][NextTimeText]_vars

\* SpecContext: one layer is drawn on a context by drawLayer or by
\* drawLayerAsync; the caller has some drawing state, saved or not.
InitContext ==
    /\ \E fn \in {"drawLayer", "drawLayerAsync"}, layer \in ContextLayers,
          kind \in {"image", "gif", "video"}, throws \in BOOLEAN, atTarget \in BOOLEAN,
          state \in CallerStates, stack \in {<<>>, <<IdentityState>>} :
             ctx = [IdleCtx EXCEPT !.pc = "called", !.fn = fn, !.layer = layer,
                                   !.kind = kind, !.throws = throws,
                                   !.atTarget = atTarget, !.state = state,
                                   !.stack = stack,
                                   !.before = [state |-> state, stack |-> stack]]
    /\ undoStack = <<>>
    /\ timeText = IdleTimeText
    /\ SampleIdle
    /\ DecodeIdle
    /\ CompositeIdle
    /\ TimelineIdle
    /\ StoreIdle
    /\ OpenIdle
    /\ RunsIdle
    /\ ExportIdle

NextContext ==
    \/ CtxDrawLayer
    \/ CtxDrawLayerAsync
    \/ CtxSeekedEvent
    \/ CtxSeekFallback

SpecContext == InitContext /\ [][NextContext]_vars

\* SpecResolvers: the loop duration of a loaded project is resolved by the
\* preview clock, the Timeline, the export service and the export dialog.
InitResolvers == InitLoop

NextResolvers ==
    \/ AnimateFrame
    \/ CalculateLoopDuration
    \/ TimelineTotalDuration
    \/ GetActualDuration

SpecResolvers == InitResolvers /\ [][NextResolvers]_vars

\* SpecStill: a project of stills is rendered and exported as a still image.
InitStill ==
    /\ project \in StillProjects
    /\ surface = BlankCanvas
    /\ videoTime = 0
    /\ broken = {}
    /\ StoreIdle
    /\ OpenIdle
    /\ RunsIdle
    /\ RestIdle
    /\ SampleIdle
    /\ DecodeIdle
    /\ TimelineIdle
    /\ ExportIdle

NextStill ==
    \/ RenderProjectToCanvas
    \/ ExportStaticImage

SpecStill == InitStill /\ [][NextStill]_vars


(***************************************************************************)
(* Claims about frame selection                                            *)
(***************************************************************************)

\* sum of the first k durations
CumDur(frames, k) == SumSeq(SubSeq(frames, 1, k))

\* i is the first index, in stored order, whose cumulative duration
\* strictly exceeds loopTime
IsFirstExceeding(frames, i, loopTime) ==
    /\ i \in 0..(Len(frames) - 1)
    /\ CumDur(frames, i + 1) > loopTime
    /\ \A j \in 0..(i - 1) : CumDur(frames, j + 1) <= loopTime

AB == [frames |-> <<100, 200>>, totalDurationMs |-> 300]

\* C1: for a non-empty frame list whose totalDurationMs is the positive sum
\* of its durations and any timeMs >= 0, each of getFrameAtTime,
\* getFrameIndexAtTime and drawGifAsset selects the first frame in stored
\* order whose cumulative duration strictly exceeds timeMs mod
\* totalDurationMs; frames [(A,100),(B,200)] give A at 50, B at 150, A at 320.
C1_FirstFrameExceedingLoopTime ==
    /\ ( /\ sample.op # "none"
         /\ Len(gifAsset.frames) > 0
         /\ gifAsset.totalDurationMs = SumSeq(gifAsset.frames)
         /\ gifAsset.totalDurationMs > 0 )
       => /\ sample.ok
          /\ IsFirstExceeding(gifAsset.frames, sample.idx,
                              sample.timeMs % gifAsset.totalDurationMs)
    /\ getFrameAtTime(AB, 50).idx = 0 /\ getFrameAtTime(AB, 150).idx = 1
    /\ getFrameAtTime(AB, 320).idx = 0
    /\ getFrameIndexAtTime(AB, 50) = 0 /\ getFrameIndexAtTime(AB, 150) = 1
    /\ getFrameIndexAtTime(AB, 320) = 0
    /\ drawGifAsset(AB, 50).idx = 0 /\ drawGifAsset(AB, 150).idx = 1
    /\ drawGifAsset(AB, 320).idx = 0

\* a sample past the first loop that lands on a later frame at a frame boundary
C1_Witness ==
    /\ sample.op = "drawGifAsset"
    /\ gifAsset.totalDurationMs > 0
    /\ sample.timeMs > gifAsset.totalDurationMs
    /\ sample.idx >= 1
    /\ CumDur(gifAsset.frames, sample.idx)
          = sample.timeMs % gifAsset.totalDurationMs

\* what the sampler named op selects at timeMs
Selected(op, asset, timeMs) ==
    CASE op = "getFrameAtTime" -> getFrameAtTime(asset, timeMs).idx
      [] op = "getFrameIndexAtTime" -> getFrameIndexAtTime(asset, timeMs)
      [] OTHER -> drawGifAsset(asset, timeMs).idx

ThreeByHundred == [frames |-> <<100, 100, 100>>, totalDurationMs |-> 300]

\* C2: loop idempotence: the frame index selected at timeMs equals the one
\* selected at timeMs mod totalDurationMs (3 frames of 100 ms: the same
\* frame at 50 and at 350).
C2_LoopIdempotence ==
    /\ sample.op # "none"
       => sample.idx = Selected(sample.op, gifAsset,
                                JsMod(sample.timeMs, gifAsset.totalDurationMs))
    /\ getFrameIndexAtTime(ThreeByHundred, 50)
          = getFrameIndexAtTime(ThreeByHundred, 350)
    /\ drawGifAsset(ThreeByHundred, 50) = drawGifAsset(ThreeByHundred, 350)

\* a sample in a later loop whose wrapped time selects a frame other than
\* the one the unwrapped time would fall through to
C2_Witness ==
    /\ sample.op = "getFrameIndexAtTime"
    /\ Len(gifAsset.frames) >= 2
    /\ gifAsset.totalDurationMs > 0
    /\ sample.timeMs >= 2 * gifAsset.totalDurationMs
    /\ sample.idx < Len(gifAsset.frames) - 1

\* C17: for a frame-sequence asset with non-empty frames and
\* totalDurationMs = 0, sampling at any timeMs does not fail and selects
\* frame index 0, in every sampler.
C17_ZeroTotalSelectsFirstFrame ==
    ( /\ sample.op # "none"
      /\ Len(gifAsset.frames) > 0
      /\ gifAsset.totalDurationMs = 0 )
    => (sample.ok /\ sample.idx = 0)

\* the decoder's index sampler falls through to the last of several frames
C17_Witness ==
    /\ sample.op = "getFrameIndexAtTime"
    /\ Len(gifAsset.frames) >= 2
    /\ gifAsset.totalDurationMs = 0
    /\ sample.idx = Len(gifAsset.frames) - 1

(***************************************************************************)
(* Claims about the normalizer                                             *)
(***************************************************************************)

\* the durations of an emitted frame list, added up from the last frame back
RECURSIVE FrameDurationSum(_)
FrameDurationSum(frames) ==
    IF Len(frames) = 0 THEN 0
    ELSE frames[Len(frames)].durationMs
            + FrameDurationSum(SubSeq(frames, 1, Len(frames) - 1))

\* C5: every frame-sequence asset produced by decodeGif and by
\* extractWebMFrames has totalDurationMs equal to the sum of the durationMs
\* of its frames, also when the extraction of some source frames failed and
\* they were skipped.
C5_TotalIsSumOfFrameDurations ==
    /\ gifDec.pc = "returned"
          => gifDec.totalDurationMs = FrameDurationSum(gifDec.frames)
    /\ webmDec.pc = "resolved"
          => webmDec.totalDurationMs = FrameDurationSum(webmDec.frames)

\* a WebM asset resolved with two frames kept and at least one skipped
C5_Witness ==
    /\ webmDec.pc = "resolved"
    /\ Len(webmDec.frames) = 2
    /\ webmDec.i > Len(webmDec.frames)
    /\ webmDec.totalDurationMs > 0

\* C18: every frame of every frame-sequence asset produced by the normalizer
\* has durationMs >= 10: decodeGif raises smaller declared delays to 10 and
\* extractWebMFrames emits no shorter frame for any frameRate option.
C18_FramesAtLeastMinimumDuration ==
    /\ \A k \in 1..Len(gifDec.frames) :
          gifDec.frames[k].durationMs >= MinFrameDurationMs
    /\ \A k \in 1..Len(webmDec.frames) :
          webmDec.frames[k].durationMs >= MinFrameDurationMs

\* a WebM asset resolved with frames of 5 ms, extracted at 200 frames a second
C18_Witness ==
    /\ webmDec.pc = "resolved"
    /\ webmDec.options.frameRate = 200
    /\ Len(webmDec.frames) >= 1
    /\ webmDec.frames[1].durationMs = 5
\* the pixels of a source frame's region (its declared offset and size)
InRegion(p, frame) == p > frame.left /\ p <= frame.left + frame.width

\* C19: in decodeGif, when frame i has disposal method 'restore to
\* background', the area cleared before frame i+1 is drawn is exactly frame
\* i's region; pixels outside that region are preserved.
C19_BackgroundDisposalClearsOnlyRegion ==
    \A k \in 1..(Len(gifDec.frames) - 1) :
       gifDec.src[k].disposalType = 2
       => gifDec.drawnOn[k + 1]
             = [p \in GifPixels |->
                  IF InRegion(p, gifDec.src[k]) THEN 0
                  ELSE gifDec.frames[k].bitmap[p]]

\* a pixel written by an earlier frame, outside the region of the disposed
\* frame, is transparent on the canvas the next frame is drawn on
C19_Witness ==
    \E k \in 1..(Len(gifDec.frames) - 1), p \in GifPixels :
       /\ gifDec.src[k].disposalType = 2
       /\ ~InRegion(p, gifDec.src[k])
       /\ gifDec.frames[k].bitmap[p] # 0
       /\ gifDec.drawnOn[k + 1][p] = 0

\* C20: in decodeGif, when frame i has disposal method 'restore to
\* previous', the canvas frame i+1 is drawn on equals the canvas as it was
\* immediately before frame i's patch was drawn, for every sequence of
\* disposal methods; each emitted bitmap is the whole canvas right after
\* its patch is drawn.
C20_PreviousDisposalRestoresCanvas ==
    /\ \A k \in 1..(Len(gifDec.frames) - 1) :
          gifDec.src[k].disposalType = 3
          => gifDec.drawnOn[k + 1] = gifDec.drawnOn[k]
    /\ \A k \in 1..Len(gifDec.frames) :
          gifDec.frames[k].bitmap
             = PutPatch(gifDec.drawnOn[k], gifDec.src[k], k)

\* a first frame and a second frame that both restore to previous: the
\* third frame is drawn on the empty canvas the first one found
C20_Witness ==
    /\ Len(gifDec.frames) = 3
    /\ gifDec.src[1].disposalType = 3
    /\ gifDec.src[2].disposalType = 3
    /\ gifDec.drawnOn[3] = ClearCanvas
    /\ gifDec.frames[2].bitmap # ClearCanvas

(***************************************************************************)
(* Claims about compositing                                                *)
(***************************************************************************)

\* position in the project's layer array of the layer with this id
PositionOf(id) == CHOOSE i \in 1..Len(project.layers) : project.layers[i].id = id

\* a layer whose sample a pass draws: asset in the table, visible, opacity > 0
Sampled(layer) ==
    /\ layer.assetId \in project.assets
    /\ layer.visible
    /\ layer.transform.opacity > 0

\* what the overlap region shows: the draws not covered by a later opaque one
RECURSIVE OverlapPixel(_)
OverlapPixel(draws) ==
    IF draws = <<>> THEN <<>>
    ELSE LET last == draws[Len(draws)]
         IN  IF last.alpha = 100 THEN <<last>>
             ELSE Append(OverlapPixel(SubSeq(draws, 1, Len(draws) - 1)), last)

\* the number of draws of this layer on the surface
DrawsOf(id) == Cardinality({k \in 1..Len(surface.draws) : surface.draws[k].layer = id})

\* C3: after any composite pass (preview render, renderProjectToCanvas, still
\* export, a frame of exportGif, a frame of either capture loop) the draws on
\* the surface follow the layer array, index 0 first: each is of a sampled
\* layer, none is repeated, and a layer later in the array is drawn later.
\* Every sampled layer is drawn, but for a video whose asynchronous seek timed
\* out.  So when the layers are all fully opaque and drawn, the overlap
\* region shows the last layer's sample and nothing of the others.
C3_LayersDrawnInArrayOrder ==
    surface.pass # "none" =>
        LET draws == surface.draws
            layers == project.layers
            n == Len(layers)
        IN  /\ \A k \in 1..Len(draws) :
                  \E i \in 1..n : /\ layers[i].id = draws[k].layer
                                  /\ layers[i].assetId = draws[k].asset
                                  /\ Sampled(layers[i])
            /\ \A j, k \in 1..Len(draws) :
                  j < k => PositionOf(draws[j].layer) < PositionOf(draws[k].layer)
            /\ \A i \in 1..n :
                  /\ DrawsOf(layers[i].id) <= 1
                  /\ Sampled(layers[i]) /\ DrawsOf(layers[i].id) = 0
                        => /\ surface.pass = "exportWebMVideo"
                           /\ AssetTable[layers[i].assetId].kind = "video"
            /\ (/\ n >= 1
                /\ \A i \in 1..n : /\ Sampled(layers[i])
                                    /\ layers[i].transform.opacity >= 100
                                    /\ DrawsOf(layers[i].id) = 1)
                  => /\ Len(OverlapPixel(draws)) = 1
                     /\ OverlapPixel(draws)[1].layer = layers[n].id
                     /\ OverlapPixel(draws)[1].asset = layers[n].assetId

\* layers [A, B, C] of three different assets, all opaque, composited by
\* exportGif: the overlap shows C
C3_Witness ==
    /\ surface.pass = "exportGif"
    /\ Len(project.layers) = 3
    /\ \A i \in 1..3 : Sampled(project.layers[i]) /\ project.layers[i].transform.opacity = 100
    /\ <<project.layers[1].assetId, project.layers[2].assetId,
         project.layers[3].assetId>> = <<"img", "vidA", "gifA">>
    /\ Len(surface.draws) = 3
    /\ LET shown == OverlapPixel(surface.draws)
       IN  /\ Len(shown) = 1
           /\ shown[1].layer = 3 /\ shown[1].alpha = 100
           /\ shown[1].asset = "gifA" /\ shown[1].frame = 1


(***************************************************************************)
(* Claims about the loop duration and the timeline                         *)
(***************************************************************************)

\* the animated assets of the table that some layer references
ReferencedAnimated(p) ==
    {a \in p.assets : /\ AssetTable[a].kind \in {"gif", "video"}
                      /\ \E i \in 1..Len(p.layers) : p.layers[i].assetId = a}

\* the longest referenced animated asset, the default when there is none
LongestReferenced(p) ==
    IF ReferencedAnimated(p) = {} THEN DefaultLoopDurationMs
    ELSE MaxOf({AssetDurationMs(AssetTable[a]) : a \in ReferencedAnimated(p)})

\* a video of 4000 ms and a GIF of 2500 ms, each on a visible layer
VideoAndGif ==
    [EmptyProject EXCEPT !.assets = {"vidA", "gifA"},
                         !.layers = <<LayerOf(1, <<"vidA", TRUE, 100>>),
                                      LayerOf(2, <<"gifA", TRUE, 100>>)>>]

\* C4: with loopDurationMs 'auto', the loop duration resolved by the preview
\* clock and by ExportService.calculateLoopDuration is the duration of the
\* longest animated asset that a layer references, and the 5000 ms default
\* only when there is no such asset.
C4_AutoIsLongestReferencedAsset ==
    (/\ project.settings.loopDurationMs = Auto
     /\ \/ call.op = "calculateLoopDuration"
        \/ call.op = "animate" /\ call.before.isPlaying)
        => call.maxDuration = LongestReferenced(project)

\* the export service resolves the loop of the video-and-GIF project to the
\* default, not to the video's 4000 ms
C4_Witness ==
    /\ project = VideoAndGif
    /\ call.op = "calculateLoopDuration"
    /\ LongestReferenced(project) = 4000
    /\ call.maxDuration = DefaultLoopDurationMs

\* C10: stop() leaves isPlaying false and currentTime 0; pause() leaves
\* isPlaying false and play() leaves it true, both with currentTime as it
\* was; none of the three changes the speed.
C10_PlaybackControls ==
    /\ call.op = "stop" =>
          /\ timeline.isPlaying = FALSE
          /\ timeline.currentTime = 0
          /\ timeline.speed = call.before.speed
    /\ call.op = "pause" =>
          /\ timeline.isPlaying = FALSE
          /\ timeline.currentTime = call.before.currentTime
          /\ timeline.speed = call.before.speed
    /\ call.op = "play" =>
          /\ timeline.isPlaying = TRUE
          /\ timeline.currentTime = call.before.currentTime
          /\ timeline.speed = call.before.speed

\* stop() called while playing at double speed, part way through the loop
C10_Witness ==
    /\ call.op = "stop"
    /\ call.before.isPlaying
    /\ call.before.currentTime > 0
    /\ call.before.speed = 200
    /\ timeline = [call.before EXCEPT !.isPlaying = FALSE, !.currentTime = 0]


(***************************************************************************)
(* Claims about exportGif                                                  *)
(***************************************************************************)

\* the delays of the frames a run has written, in order
Delays(run) == [k \in 1..Len(run.written) |-> run.written[k].delay]

\* C6: two runs of exportGif with identical layers, assets, fps and loop
\* duration write the same number of frames with the same sequence of
\* delays (and of frame times), whatever the wall clock read and however
\* long the rendering took.
C6_ExportIsDeterministic ==
    (gifRuns[1].pc = "done" /\ gifRuns[2].pc = "done") =>
        /\ Len(gifRuns[1].written) = Len(gifRuns[2].written)
        /\ Delays(gifRuns[1]) = Delays(gifRuns[2])
        /\ gifRuns[1].written = gifRuns[2].written

\* two finished runs of several frames whose rendering took different times
C6_Witness ==
    /\ gifRuns[1].pc = "done"
    /\ gifRuns[2].pc = "done"
    /\ Len(gifRuns[1].written) = MaxExportFrames
    /\ gifRuns[1].elapsed = 0
    /\ gifRuns[2].elapsed > 1
    /\ Delays(gifRuns[1]) = Delays(gifRuns[2])

\* a/b < c/d for positive denominators
FracLess(x, y) == x.num * y.den < y.num * x.den

C8_StoredOpacityInUnitRange ==
    \A i \in 1..Len(project.layers) :
        project.layers[i].transform.opacity \in 0..100

\* a layer holds the opacity 1.5 that updateLayerTransform was given
C8_Witness ==
    \E i \in 1..Len(project.layers) : project.layers[i].transform.opacity = 150

\* C9: whatever scale the mutators of a layer's transform are given, the
\* scaleX and scaleY every layer of the project holds are at least 0.1
C9_StoredScaleAtLeastMinimum ==
    \A i \in 1..Len(project.layers) :
        /\ project.layers[i].transform.scaleX >= MinScale
        /\ project.layers[i].transform.scaleY >= MinScale

\* a layer holds the scale 0.01 that updateLayerTransform or the Inspector
\* was given
C9_Witness ==
    \E i \in 1..Len(project.layers) : project.layers[i].transform.scaleX = 1

\* C11: timeline.speed is always within [0.1, 2.0], and setSpeed(s) stores
\* min(2, max(0.1, s)) and changes nothing else of the timeline
C11_SpeedClamped ==
    /\ timeline.speed >= 10
    /\ timeline.speed <= 200
    /\ call.op = "setSpeed" =>
          /\ timeline.speed = (IF call.arg < 10 THEN 10
                               ELSE IF call.arg > 200 THEN 200 ELSE call.arg)
          /\ timeline.currentTime = call.before.currentTime
          /\ timeline.isPlaying = call.before.isPlaying

\* setSpeed(0.05) on a timeline running at double speed left it at 0.1
C11_Witness ==
    /\ call.op = "setSpeed"
    /\ call.arg = 5
    /\ call.before.speed = 200
    /\ timeline.speed = 10

\* C12: an animation frame while playing moves currentTime to
\* (currentTime + deltaTime * speed) mod loopDuration, which lies in
\* [0, loopDuration), and asks for the next frame; an animation frame while
\* not playing leaves currentTime alone and asks for no further frame
C12_TickAdvancesAndWraps ==
    call.op = "animate" =>
        IF call.before.isPlaying
        THEN /\ call.maxDuration > 0
             /\ timeline.currentTime =
                    (call.before.currentTime + (call.arg * call.before.speed) \div 100)
                        % call.maxDuration
             /\ timeline.currentTime >= 0
             /\ timeline.currentTime < call.maxDuration
             /\ call.requested
        ELSE /\ timeline.currentTime = call.before.currentTime
             /\ ~call.requested

\* a frame 10 s after the last, at speed 1.5 and 1 s into a 2.5 s loop,
\* wrapped the clock round to 1 s
C12_Witness ==
    /\ call.op = "animate"
    /\ call.before.isPlaying
    /\ call.before.currentTime = 1000
    /\ call.before.speed = 150
    /\ call.arg = 10000
    /\ call.maxDuration = 2500
    /\ timeline.currentTime = 1000

\* the draw that is uppermost at the unit pixel (px, py) of a surface, 0 if
\* the pixel is left transparent
TopDrawAt(cv, px, py) ==
    LET covering == {k \in 1..Len(cv.draws) :
                        /\ cv.draws[k].alpha > 0
                        /\ cv.draws[k].rect.left <= px
                        /\ px + 1 <= cv.draws[k].rect.right
                        /\ cv.draws[k].rect.top <= py
                        /\ py + 1 <= cv.draws[k].rect.bottom}
    IN  IF covering = {} THEN 0 ELSE MaxOf(covering)

\* the pixels looked at: corners, centre, and both sides of the edges of a
\* 64 x 64 still centred on (50, 50)
ProbePixels == {0, 17, 18, 50, 81, 82, 99}

\* C13: a layer at (x, y) with scale 1, rotation 0 and opacity 1 whose asset
\* is w x h is drawn over exactly [x - w/2, x + w/2] x [y - h/2, y + h/2];
\* alone on the canvas, it colours the pixels inside that region and leaves
\* the others transparent
C13_DrawnCentredOnOrigin ==
    surface.pass # "none" =>
        \A i \in 1..Len(project.layers) :
            LET layer == project.layers[i]
                asset == AssetTable[layer.assetId]
                x == layer.transform.x
                y == layer.transform.y
                w == asset.width
                h == asset.height
            IN  (/\ layer.transform.scaleX = 100
                 /\ layer.transform.scaleY = 100
                 /\ layer.transform.rotationDeg = 0
                 /\ layer.transform.opacity = 100) =>
                    /\ \E k \in 1..Len(surface.draws) :
                          /\ surface.draws[k].layer = layer.id
                          /\ surface.draws[k].rect =
                                [left |-> x - w \div 2, right |-> x + w \div 2,
                                 top |-> y - h \div 2, bottom |-> y + h \div 2]
                    /\ Len(project.layers) = 1 =>
                          \A px \in ProbePixels, py \in ProbePixels :
                              (TopDrawAt(surface, px, py) # 0) <=>
                                  (/\ 2 * x - w <= 2 * px
                                   /\ 2 * px + 2 <= 2 * x + w
                                   /\ 2 * y - h <= 2 * py
                                   /\ 2 * py + 2 <= 2 * y + h)

\* the 64 x 64 red still at (50, 50) on the 100 x 100 canvas, rendered at
\* t = 0: the pixel (50, 50) is red and the pixel (0, 0) is transparent
C13_Witness ==
    /\ surface.pass = "renderProjectToCanvas"
    /\ surface.timeMs = 0
    /\ Len(project.layers) = 1
    /\ project.layers[1].transform = [DEFAULT_LAYER_TRANSFORM EXCEPT !.x = 50, !.y = 50]
    /\ TopDrawAt(surface, 50, 50) = 1
    /\ surface.draws[1].asset = "red"
    /\ TopDrawAt(surface, 0, 0) = 0

\* the positions of the layers whose asset the table does not hold
Dangling == {i \in 1..Len(project.layers) : project.layers[i].assetId \notin project.assets}

\* C14: in every composite pass a layer whose asset is missing from the
\* table is passed over: nothing is drawn for it, and the layers around it
\* are drawn as they would be without it, each once and in array order
C14_DanglingLayerIsNoOp ==
    (surface.pass # "none" /\ Dangling # {}) =>
        /\ \A i \in Dangling : DrawsOf(project.layers[i].id) = 0
        /\ \A k \in 1..Len(surface.draws) : surface.draws[k].asset \in project.assets
        /\ \A i \in (1..Len(project.layers)) \ Dangling :
              LET layer == project.layers[i]
              IN  (/\ layer.visible
                   /\ layer.transform.opacity > 0
                   /\ ~(/\ surface.pass = "exportWebMVideo"
                        /\ AssetTable[layer.assetId].kind = "video"))
                     => DrawsOf(layer.id) = 1
        /\ \A j, k \in 1..Len(surface.draws) :
              j < k => PositionOf(surface.draws[j].layer)
                          < PositionOf(surface.draws[k].layer)

\* a still below and a GIF above a layer whose asset is gone, in the preview:
\* the still is drawn, then the GIF
C14_Witness ==
    /\ surface.pass = "render"
    /\ Len(project.layers) = 3
    /\ Dangling = {2}
    /\ Len(surface.draws) = 2
    /\ surface.draws[1].layer = project.layers[1].id
    /\ surface.draws[2].layer = project.layers[3].id

\* C15: a draw that fails, or a seek that never completes, while one layer
\* is sampled does not end the composite pass: the pass returns normally,
\* nothing is drawn for that layer, and every other sampled layer is drawn
\* once, in array order
C15_FailureStaysInItsLayer ==
    surface.pass # "none" =>
        /\ ~surface.aborted
        /\ \A i \in 1..Len(project.layers) :
              LET layer == project.layers[i]
              IN  /\ layer.assetId \in broken => DrawsOf(layer.id) = 0
                  /\ (/\ Sampled(layer)
                       /\ layer.assetId \notin broken
                       /\ ~(/\ surface.pass = "exportWebMVideo"
                            /\ AssetTable[layer.assetId].kind = "video"))
                        => DrawsOf(layer.id) = 1
        /\ \A j, k \in 1..Len(surface.draws) :
              j < k => PositionOf(surface.draws[j].layer)
                          < PositionOf(surface.draws[k].layer)

\* the capture loop that awaits drawLayerAsync, over a still whose bitmap is
\* closed, a video whose seek timed out and a GIF: the GIF is drawn
C15_Witness ==
    /\ surface.pass = "exportWebMVideo"
    /\ broken = {"img"}
    /\ Len(project.layers) = 3
    /\ project.layers[1].assetId = "img"
    /\ project.layers[2].assetId = "vidA"
    /\ project.layers[3].assetId = "gifA"
    /\ Len(surface.draws) = 1
    /\ surface.draws[1].layer = project.layers[3].id

\* a duration that is NaN, infinite or not positive
BadDuration(duration) == duration \in {NaN, Infinity} \/ duration <= 0

\* C16: a video whose reported duration is NaN, infinite or <= 0 is rejected
\* by createVideoAsset and by extractWebMFrames, with nothing constructed;
\* a video asset that was constructed has a finite durationMs > 0.
C16_BadDurationRejected ==
    /\ (webmDec.pc \notin {"idle", "loading"} /\ BadDuration(webmDec.duration))
          => (webmDec.pc = "rejected" /\ webmDec.frames = <<>>)
    /\ (videoOpen.pc \notin {"idle", "loading"} /\ BadDuration(videoOpen.duration))
          => (videoOpen.pc = "rejected" /\ videoOpen.durationMs = 0)
    /\ videoOpen.pc = "resolved"
          => (isFinite(videoOpen.durationMs) /\ videoOpen.durationMs > 0)

C16_Witness ==
    /\ videoOpen.pc = "rejected"
    /\ videoOpen.error = "Invalid video duration"
    /\ videoOpen.duration = Infinity

(***************************************************************************)
(* Claims about capture export                                             *)
(***************************************************************************)

\* C21: in every capture-export path the capture session is started
\* (MediaRecorder.start) before the render loop composites its first frame,
\* and it is stopped by a timer that fires loopDurationMs after the start.
C21_StartedBeforeFirstFrame ==
    /\ capture.currentFrame > 0 => capture.firstFrameRecorder # "none"
    /\ capture.stoppedAt # -1
          => capture.stoppedAt = capture.startedAt + capture.loopDurationMs

\* exportProjectAsWebM has composited its first frame with no recorder, and
\* started the recorder afterwards
C21_Witness ==
    /\ capture.path = "project"
    /\ capture.firstFrameRecorder = "none"
    /\ capture.recorder = "recording"
    /\ capture.currentFrame = 1

\* C22: the capture render loop composites frames at wall-clock-derived
\* timestamps for the whole recording: it does not stop rescheduling itself
\* before the recorder's stop timer has fired, and it ends once elapsed time
\* reaches loopDurationMs plus the trailing buffer.
C22_LoopRunsForWholeRecording ==
    /\ capture.currentFrame > 0
          => capture.frame.timeMs = capture.frame.elapsed % capture.loopDurationMs
    /\ capture.loopEndedAt # -1
          => /\ ~capture.loopEndedBeforeStop
             /\ capture.frame.elapsed >= capture.loopDurationMs + TrailingBufferMs
    /\ (capture.raf.set /\ capture.currentFrame > 0)
          => capture.frame.elapsed < capture.loopDurationMs + TrailingBufferMs

\* the loop of exportProjectAsWebM has ended while the recorder is recording
\* and its stop timer is still to fire
C22_Witness ==
    /\ capture.path = "project"
    /\ capture.loopEndedAt # -1
    /\ capture.loopEndedAt < capture.startedAt + capture.loopDurationMs
    /\ capture.recorder = "recording"
    /\ capture.timer.set
    /\ capture.now > capture.loopEndedAt

C24_SupportedMimeTypeOrNoCapture ==
    /\ capture.supported = {}
          => /\ ~capture.streamCreated
             /\ capture.recorder = "none"
             /\ capture.pc \in {"called", "rejected"}
             /\ ~capture.blob
    /\ capture.recorder # "none" => capture.mimeType \in capture.supported

\* a transparent export where no alpha codec is supported records with the
\* plain container type, although vp9 is supported
C24_Witness ==
    /\ capture.transparent
    /\ capture.supported = {WebM, Vp8, Vp9}
    /\ capture.recorder = "recording"
    /\ capture.mimeType = WebM

\* C27: when an export fails in any format path, the progress stream reports
\* a "failed" stage with a message, distinguishable from the stage of a
\* successful completion, the export rejects, and no blob is returned.
C27_FailureReportsFailedStage ==
    (capture.path = "service" /\ capture.pc = "rejected")
    => /\ \E e \in capture.events : e.failed /\ e.stage = "failed"
       /\ \A e \in capture.events : e.failed => e.stage # "complete"
       /\ ~capture.blob

\* a WebM export that failed on a recorder error reported stage 'complete'
C27_Witness ==
    /\ capture.path = "service"
    /\ capture.pc = "rejected"
    /\ capture.error = "MediaRecorder error"
    /\ ~capture.blob
    /\ \E e \in capture.events : e.failed /\ e.stage = "complete" /\ e.progress = 0

\* C28: during a capture export, reported progress grows with elapsed wall
\* time and stays below 100: no event with progress 100 or stage 'complete'
\* is emitted before the recorder's stop callback has delivered the final
\* container.
C28_NoCompletionBeforeContainer ==
    /\ \A e \in capture.events :
          (e.progress = 100 \/ e.stage = "complete") => e.delivered
    /\ \A e \in capture.events : ~e.delivered => e.progress < 100
    /\ \A e1, e2 \in capture.events :
          (e1.stage = "rendering" /\ e2.stage = "rendering" /\ e1.at <= e2.at)
          => e1.progress <= e2.progress

\* the render loop had reported progress when the recorder failed, and a
\* 'complete' event followed with no container delivered
C28_Witness ==
    /\ capture.path = "service"
    /\ capture.promise = "rejected"
    /\ \E e \in capture.events : e.stage = "rendering" /\ e.at > 0
    /\ \E e \in capture.events : e.stage = "complete" /\ ~e.delivered

(***************************************************************************)
(* Claims about video seeking                                              *)
(***************************************************************************)

\* C25: every video seek-and-wait is bounded by a timeout: if 'seeked' never
\* arrives, the waiting flow still completes (resolves or rejects) after the
\* timeout, for drawVideoAssetAsync and for both seekVideoToTime helpers.
C25_SeekWaitCompletes ==
    (seekWait.pc = "waiting") ~> (seekWait.pc \in {"resolved", "rejected"})

\* seekVideoToTime of the video utilities is still waiting after the longest
\* timeout of the other helpers, with no timer set
C25_Witness ==
    /\ seekWait.helper = "seekVideoToTime (video utils)"
    /\ seekWait.pc = "waiting"
    /\ ~seekWait.timer.set
    /\ seekWait.now > ExtractSeekTimeoutMs

\* C26: a video asset's playback position is a single-writer resource: when
\* the preview loop and an export sample the same video asset at the same
\* time, one sampler never changes the position between the other
\* sampler's seek and its draw.
C26_PositionKeptBetweenSeekAndDraw ==
    /\ shared.pc = "seeking" => shared.position = shared.target
    /\ shared.pc = "drawn" => Abs(shared.drawnAt - shared.target) < 100

\* the export has drawn the frame the preview had sought in between
C26_Witness ==
    /\ shared.pc = "drawn"
    /\ shared.previewSince
    /\ shared.target = 1000
    /\ shared.drawnAt = 500

(***************************************************************************)
(* Claims about still export and the background                            *)
(***************************************************************************)

\* C29: every still-export entry point renders the composition at the
\* caller-specified timestamp: for a project with an animated layer, the
\* exported frame is the composite at the requested timeMs, in
\* exportProjectAsPNG/JPEG (renderProjectToCanvas) and in
\* ExportService.export for 'png' and 'jpeg' (exportStaticImage).
C29_StillAtRequestedTime ==
    surface.pass \in {"renderProjectToCanvas", "exportStaticImage"}
    => /\ surface.timeMs = surface.requested
       /\ \A k \in 1..Len(surface.draws) :
             AssetTable[surface.draws[k].asset].kind = "gif"
             => surface.draws[k].frame
                   = drawGifAsset(AssetTable[surface.draws[k].asset],
                                  surface.requested).idx

\* ExportService has exported the first frame of a GIF layer where the
\* caller wanted the frame at 4200 ms, the second one
C29_Witness ==
    /\ surface.pass = "exportStaticImage"
    /\ surface.requested = 4200
    /\ \E k \in 1..Len(surface.draws) :
          /\ surface.draws[k].asset = "gifA"
          /\ surface.draws[k].frame = 0
          /\ drawGifAsset(AssetTable["gifA"], 4200).idx = 1

\* what clearCanvas leaves under the layers for this background
FillOf(background) ==
    IF background.type = "color" /\ background.color # "" THEN background.color
    ELSE "transparent"

\* C30: before any layer is drawn in a composite pass the whole surface is
\* cleared, and then filled with the background color if and only if the
\* background is opaque-colored; so the result of a pass does not depend on
\* what the surface held before: it holds one draw per drawn layer, each of
\* the frame of this pass's time.
C30_SurfaceClearedBeforeLayers ==
    surface.pass # "none" =>
       /\ surface.fill \in {FillOf(project.settings.background), "transparent"}
       /\ surface.pass \notin {"exportGif", "exportWebMVideo"}
             => surface.fill = FillOf(project.settings.background)
       /\ \A i \in 1..Len(project.layers) : DrawsOf(project.layers[i].id) <= 1
       /\ \A k \in 1..Len(surface.draws) :
             LET asset == AssetTable[surface.draws[k].asset]
             IN  /\ asset.kind = "gif" /\ surface.pass # "exportStaticImage"
                       => surface.draws[k].frame
                             = drawGifAsset(asset, surface.timeMs).idx
                 /\ asset.kind = "image" => surface.draws[k].frame = 0

\* a GIF frame at time 0 on a colored background, composited on the surface
\* that an earlier pass at 4200 ms had drawn on (the video layer still shows
\* the position that pass had sought)
C30_Witness ==
    /\ surface.pass = "exportGif"
    /\ surface.timeMs = 0
    /\ surface.fill = "#336699"
    /\ Len(surface.draws) = 2
    /\ \E k \in 1..2 : surface.draws[k].asset = "vidA" /\ surface.draws[k].frame = 200
    /\ \E k \in 1..2 : surface.draws[k].asset = "gifA" /\ surface.draws[k].frame = 0

\* C31: removeAsset(id) removes the asset and every layer that references
\* it, keeps all other layers in their relative order, and removes the
\* deleted layers' ids from the selection; afterwards no layer has
\* assetId = id.
C31_RemoveAssetRemovesItsLayers ==
    call.op = "removeAsset" =>
        LET id == call.arg
            before == call.before
            Other(layer) == layer.assetId # id
            deleted == {before.project.layers[i].id :
                           i \in {j \in 1..Len(before.project.layers) :
                                     before.project.layers[j].assetId = id}}
            Remaining(layerId) ==
                \E i \in 1..Len(project.layers) : project.layers[i].id = layerId
        IN  /\ id \notin project.assets
            /\ project.assets = before.project.assets \ {id}
            /\ project.layers = SelectSeq(before.project.layers, Other)
            /\ \A i \in 1..Len(project.layers) : project.layers[i].assetId # id
            /\ \A k \in 1..Len(selectedLayerIds) : selectedLayerIds[k] \notin deleted
            /\ SelectSeq(selectedLayerIds, Remaining)
                  = SelectSeq(before.selectedLayerIds, Remaining)

\* an asset with one of two layers, the selected one, has been removed
C31_Witness ==
    /\ call.op = "removeAsset"
    /\ call.arg = "gifB"
    /\ Len(call.before.project.layers) = 2
    /\ call.before.project.layers[1].assetId = "gifB"
    /\ call.before.project.layers[2].assetId = "img"
    /\ call.before.selectedLayerIds = <<call.before.project.layers[1].id>>
    /\ project.assets = {"img"}
    /\ Len(project.layers) = 1
    /\ project.layers[1] = call.before.project.layers[2]
    /\ selectedLayerIds = <<>>

\* C34: after any sequence of createNewProject, addAsset, removeAsset,
\* addLayer, removeLayer, duplicateLayer, updateLayerTransform,
\* reorderLayers, moveLayerUp, moveLayerDown, addLibraryAssetToProject,
\* saveStateForUndo and undo, every layer's assetId is a key of the
\* project's asset table; addLayer with an unknown asset id returns '' and
\* adds no layer.
C34_LayersReferenceHeldAssets ==
    /\ \A i \in 1..Len(project.layers) : project.layers[i].assetId \in project.assets
    /\ (call.op = "addLayer" /\ call.arg \notin call.before.project.assets) =>
          /\ call.result = NoLayerId
          /\ project = call.before.project

\* addLayer was refused for an asset that was removed with its layer, in a
\* project that still holds a layer
C34_Witness ==
    /\ call.op = "addLayer"
    /\ call.arg = "gifB"
    /\ "gifB" \notin project.assets
    /\ call.result = NoLayerId
    /\ Len(project.layers) = 1
    /\ Len(undoStack) = 1
    /\ \E i \in 1..Len(undoStack[1].layers) : undoStack[1].layers[i].assetId = "gifB"

LayerMutations ==
    {"addLayer", "removeLayer", "updateLayer", "updateLayerTransform",
     "reorderLayers", "moveLayerUp", "moveLayerDown"}

\* C35: saveStateForUndo puts the project on the stack, which never holds
\* more than 20 entries; the layer mutations (addLayer, removeLayer,
\* updateLayer, updateLayerTransform, reorderLayers, moveLayerUp,
\* moveLayerDown) leave the stack as it is; undo then gives the project the
\* layers and assets of the last save, consumes exactly that entry and
\* empties the selection; undo on an empty stack changes nothing.
C35_UndoRestoresTheSave ==
    [][/\ Len(undoStack') <= UndoLimit
       /\ call'.op = "saveStateForUndo" =>
             /\ project' = project
             /\ undoStack'[Len(undoStack')] = project
             /\ \A k \in 1..(Len(undoStack') - 1) :
                   undoStack'[Len(undoStack') - k] = undoStack[Len(undoStack) + 1 - k]
       /\ call'.op \in LayerMutations => undoStack' = undoStack
       /\ (call'.op = "undo" /\ Len(undoStack) > 0) =>
             /\ project'.layers = undoStack[Len(undoStack)].layers
             /\ project'.assets = undoStack[Len(undoStack)].assets
             /\ undoStack' = SubSeq(undoStack, 1, Len(undoStack) - 1)
             /\ selectedLayerIds' = <<>>
       /\ (call'.op = "undo" /\ Len(undoStack) = 0) =>
             UNCHANGED <<project, undoStack, selectedLayerIds>>]_vars

\* a project of two layers was saved on a full stack, a layer was selected
\* and the layers were changed, and undo has brought the saved layers back
C35_Witness ==
    /\ call.op = "undo"
    /\ Len(call.before.undoStack) = UndoLimit
    /\ Len(call.before.undoStack[UndoLimit].layers) = 2
    /\ call.before.project.layers # call.before.undoStack[UndoLimit].layers
    /\ call.before.selectedLayerIds # <<>>
    /\ project = call.before.undoStack[UndoLimit]
    /\ Len(undoStack) = UndoLimit - 1
    /\ selectedLayerIds = <<>>

\* a text in the seconds form of formatTime, as '1.5s'
IsSecondsForm(text) ==
    LET k == DigitPrefix(text)
    IN  /\ k > 0
        /\ Len(text) = k + 3
        /\ text[k + 1] = "."
        /\ IsDigit(text[k + 2])
        /\ text[k + 3] = "s"

\* a text in the minutes form of formatTime, as '1:30.5'
IsMinutesForm(text) ==
    LET k == DigitPrefix(text)
    IN  /\ k > 0
        /\ Len(text) = k + 5
        /\ text[k + 1] = ":"
        /\ IsDigit(text[k + 2])
        /\ IsDigit(text[k + 3])
        /\ text[k + 4] = "."
        /\ IsDigit(text[k + 5])

\* C32: for every integer ms >= 0, parseTime(formatTime(ms)) equals ms
\* rounded down to a multiple of 100 ms, in the seconds form and in the
\* minutes form; parseTime of a string matching neither form returns 0.
C32_ParseInvertsFormat ==
    timeText.pc = "parsed" =>
        /\ timeText.formatted =>
              /\ timeText.parsed = timeText.ms - (timeText.ms % 100)
              /\ IsSecondsForm(timeText.text) \/ IsMinutesForm(timeText.text)
        /\ (~IsSecondsForm(timeText.text) /\ ~IsMinutesForm(timeText.text)) =>
              timeText.parsed = 0

\* a time of the minutes form, not a multiple of 100 ms, went through
\* formatTime and parseTime
C32_Witness ==
    /\ timeText.pc = "parsed"
    /\ timeText.ms = 61549
    /\ timeText.text = <<"1", ":", "0", "1", ".", "5">>
    /\ timeText.parsed = 61500

\* the end of a text that parseTime reads as a time: an optional point, an
\* optional tenth, an optional s
TimeTails ==
    {<<>>, <<".">>, <<"s">>, <<".", "s">>}
        \cup {<<".", DigitChars[d]>> : d \in 1..10}
        \cup {<<".", DigitChars[d], "s">> : d \in 1..10}

\* a text that is minutes and a colon, or nothing, then seconds, then one of
\* the ends above; minutes and seconds are one digit or more
IsTimeText(text) ==
    \E i \in 0..Len(text), j \in 1..Len(text) :
        /\ i < j
        /\ i > 0 => /\ i > 1
                    /\ text[i] = ":"
                    /\ \A k \in 1..(i - 1) : IsDigit(text[k])
        /\ \A k \in (i + 1)..j : IsDigit(text[k])
        /\ SubSeq(text, j + 1, Len(text)) \in TimeTails

\* C32, amended: parseTime(formatTime(ms)) equals ms rounded down to a
\* multiple of 100 ms, in the seconds form and in the minutes form;
\* parseTime returns 0 for a string that is not minutes (optional), seconds
\* and an optional point, tenth and s.  A string of that shape that is in
\* neither form of formatTime, as '5' or '1.5', is read as a time.
C32_ParseInvertsFormatAndReadsMore ==
    timeText.pc = "parsed" =>
        /\ timeText.formatted =>
              /\ timeText.parsed = timeText.ms - (timeText.ms % 100)
              /\ IsSecondsForm(timeText.text) \/ IsMinutesForm(timeText.text)
        /\ ~IsTimeText(timeText.text) => timeText.parsed = 0
        /\ timeText.text = <<"5">> => timeText.parsed = 5000
        /\ timeText.text = <<"1", ".", "5">> => timeText.parsed = 1500

\* C33: drawLayer and drawLayerAsync leave the context's coordinate frame,
\* global alpha and compositing mode exactly as they were before the call
\* on every path: layer skipped because invisible or opacity <= 0 (nothing
\* drawn), drawn normally, draw failed, or video seek timed out; saves and
\* restores are balanced.
C33_DrawingStateRestored ==
    ctx.pc = "returned" =>
        /\ ctx.state = ctx.before.state
        /\ ctx.stack = ctx.before.stack
        /\ ctx.path \in {"skipped", "drawn", "failed", "timed out"}
        /\ ctx.path = "skipped" => ctx.draws = 0
        /\ ctx.path = "skipped" <=> (~ctx.layer.visible \/ ctx.layer.transform.opacity <= 0)

\* drawLayerAsync has returned after the seek of a video timed out, with the
\* drawing state a rotated, scaled, half-opaque layer had replaced
C33_Witness ==
    /\ ctx.pc = "returned"
    /\ ctx.fn = "drawLayerAsync"
    /\ ctx.kind = "video"
    /\ ctx.path = "timed out"
    /\ ctx.layer.transform.rotationDeg = 90
    /\ ctx.layer.transform.opacity = 50
    /\ ctx.before.state.globalCompositeOperation = "multiply"
    /\ ctx.state = ctx.before.state
    /\ ctx.before.stack = <<IdentityState>>
    /\ ctx.stack = ctx.before.stack

\* C38: in drawVideoAssetAsync, under every interleaving of the
\* seek-complete event and the 1000 ms timeout, the video frame is drawn at
\* most once per sample and never after the sample's promise has resolved:
\* a seek-complete event that arrives after the timeout draws nothing, so
\* no draw happens after drawLayerAsync has restored the drawing state.
C38_OneDrawBeforeResolve ==
    /\ ctx.draws <= 1
    /\ ctx.lateDraws = 0
    /\ (ctx.path = "timed out") => ctx.draws = 0

\* the seek-complete event arrived after the timeout, and nothing was drawn
C38_Witness ==
    /\ ctx.fn = "drawLayerAsync"
    /\ ctx.kind = "video"
    /\ ~ctx.throws
    /\ ctx.path = "timed out"
    /\ ctx.pc = "returned"
    /\ ~ctx.timer
    /\ ~ctx.seekPending
    /\ ctx.draws = 0

\* C36: for every project, all resolvers of the effective loop duration
\* return the same value: what the preview clock (CanvasStage.animate), the
\* Timeline display, ExportService.calculateLoopDuration or the export
\* dialog's getActualDuration has resolved is what each of the four
\* resolves for the project, for an explicit loopDurationMs and for 'auto'
\* with any set of assets and layers.
C36_ResolversAgree ==
    (\/ call.op \in {"calculateLoopDuration", "totalDuration", "getActualDuration"}
     \/ call.op = "animate" /\ call.before.isPlaying)
        => /\ call.maxDuration = PreviewMaxDuration(project)
           /\ call.maxDuration = totalDuration(project)
           /\ call.maxDuration = calculateLoopDuration(project)
           /\ call.maxDuration = getActualDuration(project)

\* for a project with no animated asset the export dialog resolves 3000 ms
\* and the other three 5000 ms
C36_Witness ==
    /\ call.op = "getActualDuration"
    /\ project.settings.loopDurationMs = Auto
    /\ project.assets = {"img"}
    /\ call.maxDuration = DialogFallbackMs
    /\ PreviewMaxDuration(project) = DefaultLoopDurationMs
    /\ totalDuration(project) = DefaultLoopDurationMs
    /\ calculateLoopDuration(project) = DefaultLoopDurationMs

\* the place of a stage in the order preparing, rendering, encoding, complete
StageRank(stage) ==
    CASE stage = "preparing" -> 0
      [] stage = "rendering" -> 1
      [] stage = "encoding" -> 2
      [] OTHER -> 3

\* C37: in every successful ExportService.export run the sequence of
\* progress events is monotone: progress values are within 0..100 and never
\* decrease, stages appear in the order preparing, rendering, encoding,
\* complete without going back to an earlier stage, and the last event is
\* stage 'complete' with progress 100.
C37_ProgressMonotone ==
    (capture.path = "service" /\ capture.pc = "resolved")
    => /\ \A e \in capture.events : e.progress \in 0..100
       /\ \A e1, e2 \in capture.events :
             e1.seq < e2.seq => /\ e1.progress <= e2.progress
                                /\ StageRank(e1.stage) <= StageRank(e2.stage)
       /\ \E e \in capture.events :
             /\ e.seq = Cardinality(capture.events)
             /\ e.stage = "complete"
             /\ e.progress = 100

\* a WebM export has resolved; 'encoding' 80 was emitted before the render
\* loop reported 'rendering' with less than 80
C37_Witness ==
    /\ capture.path = "service"
    /\ capture.pc = "resolved"
    /\ capture.blob
    /\ \E e1, e2 \in capture.events :
          /\ e1.seq < e2.seq
          /\ e1.stage = "encoding" /\ e1.progress = 80
          /\ e2.stage = "rendering" /\ e2.progress < 80

\* the layers addLayer has just appended
AddedLayers ==
    {i \in 1..Len(project.layers) : project.layers[i].id = call.result}

\* C39: addLayer places the new layer at the centered position of the
\* composition: right after addLayer, the layer's drawn bounding box (asset
\* drawn centered on the transform origin, scale 1, rotation 0) is centered
\* on the canvas, its center being (settings.width/2, settings.height/2).
C39_NewLayerCentred ==
    (call.op = "addLayer" /\ call.result # NoLayerId)
    => \A i \in AddedLayers :
          LET layer == project.layers[i]
              rect == DrawnRect(layer.transform, AssetTable[layer.assetId])
          IN  /\ rect.left + rect.right = project.settings.width
              /\ rect.top + rect.bottom = project.settings.height

\* the 80 x 80 image added to the 1920 x 1080 composition is drawn over
\* 880..960 by 460..540, centered on (920, 500) and not on (960, 540)
C39_Witness ==
    /\ call.op = "addLayer"
    /\ call.arg = "img"
    /\ call.result # NoLayerId
    /\ project.settings.width = 1920
    /\ project.settings.height = 1080
    /\ \E i \in AddedLayers :
          /\ project.layers[i].transform.x = 920
          /\ project.layers[i].transform.y = 500
          /\ DrawnRect(project.layers[i].transform, AssetTable["img"]) =
                [left |-> 880, right |-> 960, top |-> 460, bottom |-> 540]

====
